---- MODULE Spec2Model ----
(***************************************************************************)
(* Model of the LZSS codec and of its bit stream layer                     *)
(* (src/PFAC/lzssx.c), and of the Huffman builder (src/unnamed/part_000).  *)
(*                                                                         *)
(* A C function becomes an operator that takes the objects it reads and    *)
(* returns a record of its return value (rv) and of the objects it         *)
(* changed.  A byte array ("void *bits") is a sequence: C index i is       *)
(* sequence index i + 1.  unsigned char arithmetic is taken modulo 256.    *)
(***************************************************************************)
EXTENDS Integers, Sequences, FiniteSets, TLC

(***************************************************************************)
(* Bounds of the model.                                                    *)
(***************************************************************************)
MaxInput == 4       \* longest input file given to EncodeLZSS
MaxMatched == 4     \* largest value the pattern matcher reports
MaxOverrun == 1     \* bytes strlen may read past an unterminated window
MaxOps == 2         \* calls made on one write handle
MaxCount == 12      \* largest bit count passed to Get/PutBits
MaxFile == 2        \* longest file read through a READ handle
MaxReads == 6       \* calls made on one READ handle
MaxSize == 2        \* largest sizeof of an integer given to Get/PutBitsNum

(***************************************************************************)
(* Program constants.                                                      *)
(***************************************************************************)
OFFSET_BITS == 12
LENGTH_BITS == 4
MAX_UNCODED == 2
WINDOW_SIZE == 2 ^ OFFSET_BITS
MAX_CODED == (2 ^ LENGTH_BITS) + MAX_UNCODED
ENCODED == 0
UNCODED == 1
EOF == 0 - 1
ENOENT == 2
NULL == "NULL"
ENOTSUP == 95
UINT_SIZE == 4
SPACE == 32

Byte == 0 .. 255

(***************************************************************************)
(* unsigned char arithmetic.                                               *)
(***************************************************************************)
Shl8(b, n) == (b * (2 ^ n)) % 256
Shr8(b, n) == (b % 256) \div (2 ^ n)
BitAt(b, i) == (b \div (2 ^ i)) % 2

RECURSIVE OrBits(_, _, _)
OrBits(a, b, i) ==
    IF i = 8 THEN 0
    ELSE (IF BitAt(a, i) = 1 \/ BitAt(b, i) = 1 THEN 2 ^ i ELSE 0)
         + OrBits(a, b, i + 1)
Or8(a, b) == OrBits(a, b, 0)

RECURSIVE AndBits(_, _, _)
AndBits(a, b, i) ==
    IF i = 8 THEN 0
    ELSE (IF BitAt(a, i) = 1 /\ BitAt(b, i) = 1 THEN 2 ^ i ELSE 0)
         + AndBits(a, b, i + 1)
And8(a, b) == AndBits(a, b, 0)

(***************************************************************************)
(* stdio on a FILE: data is the file's content, pos the next index read.   *)
(* A bit_file_t is the record                                              *)
(*   [data, pos, bitBuffer, bitCount, mode, endian]                        *)
(* where data and pos stand for fp and endian for the pair of functions    *)
(* MakeBitFile binds to PutBitsNumFunc and GetBitsNumFunc.                 *)
(***************************************************************************)
BF_READ == "BF_READ"
BF_WRITE == "BF_WRITE"
BF_APPEND == "BF_APPEND"
BF_LITTLE_ENDIAN == "BF_LITTLE_ENDIAN"
BF_BIG_ENDIAN == "BF_BIG_ENDIAN"
BF_UNKNOWN_ENDIAN == "BF_UNKNOWN_ENDIAN"

fputc(c, s) == [rv |-> c % 256, s |-> [s EXCEPT !.data = Append(@, c % 256)]]

fgetc(s) ==
    IF s.pos <= Len(s.data)
    THEN [rv |-> s.data[s.pos], s |-> [s EXCEPT !.pos = @ + 1]]
    ELSE [rv |-> EOF, s |-> s]

MakeBitFile(data, mode, endian) ==
    [data |-> data, pos |-> 1, bitBuffer |-> 0, bitCount |-> 0,
     mode |-> mode, endian |-> endian]

\* a flush that emits a byte even when no bit is pending
FlushAlways(s) ==
    IF s.mode \in {BF_WRITE, BF_APPEND}
    THEN fputc(Shl8(s.bitBuffer, 8 - s.bitCount), s).s
    ELSE s

\* the flush shared by BitFileClose, BitFileToFILE and BitFileByteAlign
FlushZeros(s) ==
    IF s.mode \in {BF_WRITE, BF_APPEND} /\ s.bitCount # 0
    THEN LET b == Shl8(s.bitBuffer, 8 - s.bitCount)
         IN  fputc(b, [s EXCEPT !.bitBuffer = b]).s
    ELSE s

BitFileClose(s) == [rv |-> 0, s |-> FlushZeros(s)]

BitFileToFILE(s) == [rv |-> 0, s |-> FlushZeros(s)]

\* an alignment that flushes but leaves the buffer and its count as they are
AlignKeepsCount(s) == [rv |-> s.bitBuffer, s |-> FlushZeros(s)]

BitFileByteAlign(s) ==
    [rv |-> s.bitBuffer,
     s |-> [FlushZeros(s) EXCEPT !.bitBuffer = 0, !.bitCount = 0]]

\* a flush of the output that fills the spare bits with zeros whatever
\* onesFill is
FlushOutputZeros(s, onesFill) ==
    IF s.bitCount # 0
    THEN LET w == fputc(Shl8(s.bitBuffer, 8 - s.bitCount), s)
         IN  [rv |-> w.rv, s |-> [w.s EXCEPT !.bitBuffer = 0, !.bitCount = 0]]
    ELSE [rv |-> 0 - 1, s |-> [s EXCEPT !.bitBuffer = 0, !.bitCount = 0]]

BitFileFlushOutput(s, onesFill) ==
    IF s.bitCount # 0
    THEN LET b0 == Shl8(s.bitBuffer, 8 - s.bitCount)
             b  == IF onesFill # 0 THEN Or8(b0, Shr8(255, s.bitCount)) ELSE b0
             w  == fputc(b, s)
         IN  [rv |-> w.rv, s |-> [w.s EXCEPT !.bitBuffer = 0, !.bitCount = 0]]
    ELSE [rv |-> 0 - 1, s |-> [s EXCEPT !.bitBuffer = 0, !.bitCount = 0]]

\* a read of a byte that forgets the bits left in the buffer
GetCharUnbuffered(s) == fgetc(s)

BitFileGetChar(s) ==
    LET r == fgetc(s)
    IN  IF s.bitCount = 0 THEN r
        ELSE IF r.rv # EOF
        THEN LET tmp == Or8(Shr8(r.rv, s.bitCount),
                            Shl8(s.bitBuffer, 8 - s.bitCount))
             IN  [rv |-> tmp, s |-> [r.s EXCEPT !.bitBuffer = r.rv]]
        ELSE r

\* a write of a byte that goes past the bits waiting in the buffer
PutCharUnbuffered(c, s) == fputc(c, s)

BitFilePutChar(c, s) ==
    IF s.bitCount = 0 THEN fputc(c, s)
    ELSE LET tmp == Or8(Shr8(c, s.bitCount),
                        Shl8(s.bitBuffer, 8 - s.bitCount))
         IN  [rv |-> tmp, s |-> [fputc(tmp, s).s EXCEPT !.bitBuffer = c % 256]]

BitFileGetBit(s) ==
    LET r == IF s.bitCount = 0 THEN fgetc(s) ELSE [rv |-> 0, s |-> s]
    IN  IF r.rv = EOF THEN r
        ELSE LET t == IF s.bitCount = 0
                      THEN [r.s EXCEPT !.bitCount = 8, !.bitBuffer = r.rv]
                      ELSE s
                 u == [t EXCEPT !.bitCount = @ - 1]
             IN  [rv |-> And8(Shr8(u.bitBuffer, u.bitCount), 1), s |-> u]

\* a write of a bit that never empties the buffer
PutBitUnflushed(c, s) ==
    [rv |-> c,
     s |-> [s EXCEPT !.bitCount = @ + 1,
                     !.bitBuffer = Or8(Shl8(s.bitBuffer, 1),
                                       IF c # 0 THEN 1 ELSE 0)]]

BitFilePutBit(c, s) ==
    LET b == Or8(Shl8(s.bitBuffer, 1), IF c # 0 THEN 1 ELSE 0)
        t == [s EXCEPT !.bitCount = @ + 1, !.bitBuffer = b]
    IN  IF t.bitCount = 8
        THEN [rv |-> c, s |-> [fputc(b, t).s EXCEPT !.bitCount = 0, !.bitBuffer = 0]]
        ELSE [rv |-> c, s |-> t]

(***************************************************************************)
(* Byte arrays.  Rd and Wr are bytes[offset] read and written.             *)
(***************************************************************************)
Rd(bytes, offset) == bytes[offset + 1]
Wr(bytes, offset, v) == [bytes EXCEPT ![offset + 1] = v % 256]

\* Only(S) is the element of a singleton: Only({e(x) : x \in {v}}) is e with
\* x naming the value of v
Only(S) == CHOOSE x \in S : TRUE

(***************************************************************************)
(* The loops of the Get and Put functions.  A loop is the operator of its  *)
(* body, applied while the loop's condition holds, on the record st of     *)
(* what the loop changes: the stream s, the array bits and the index       *)
(* offset for the whole bytes, the stream s and the byte b (or tmp) for    *)
(* the remaining bits; rv is EOF once a call has returned EOF.             *)
(***************************************************************************)
\* body of "while (remaining >= 8)" of a Get function; step is +1 or -1
GetByteStep(st, step) ==
    LET r == BitFileGetChar(st.s)
    IN  IF r.rv = EOF THEN [st EXCEPT !.rv = EOF, !.s = r.s]
        ELSE [rv |-> 0, s |-> r.s, bits |-> Wr(st.bits, st.offset, r.rv),
              offset |-> st.offset + step]

RECURSIVE GetWholeBytes(_, _, _)
GetWholeBytes(st, remaining, step) ==
    IF remaining < 8 THEN [st |-> st, remaining |-> remaining]
    ELSE Only({IF n.rv = EOF THEN [st |-> n, remaining |-> remaining]
               ELSE GetWholeBytes(n, remaining - 8, step) :
                    n \in {GetByteStep(st, step)}})

\* body of "while (remaining > 0)" of a Get function
GetBitStep(st) ==
    LET r == BitFileGetBit(st.s)
    IN  IF r.rv = EOF THEN [st EXCEPT !.rv = EOF, !.s = r.s]
        ELSE [rv |-> 0, s |-> r.s, b |-> Or8(Shl8(st.b, 1), And8(r.rv, 1))]

RECURSIVE GetTailBits(_, _)
GetTailBits(st, remaining) ==
    IF remaining = 0 THEN st
    ELSE Only({IF n.rv = EOF THEN n ELSE GetTailBits(n, remaining - 1) :
                    n \in {GetBitStep(st)}})

\* body of "while (remaining >= 8)" of a Put function
PutByteStep(st, bytes, step) ==
    [s |-> BitFilePutChar(Rd(bytes, st.offset), st.s).s,
     offset |-> st.offset + step]

RECURSIVE PutWholeBytes(_, _, _, _)
PutWholeBytes(st, bytes, remaining, step) ==
    IF remaining < 8 THEN [st |-> st, remaining |-> remaining]
    ELSE Only({PutWholeBytes(n, bytes, remaining - 8, step) :
                    n \in {PutByteStep(st, bytes, step)}})

\* body of "while (remaining > 0)" of a Put function
PutBitStep(st) ==
    [s |-> BitFilePutBit(And8(st.tmp, 128), st.s).s, tmp |-> Shl8(st.tmp, 1)]

RECURSIVE PutTailBits(_, _)
PutTailBits(st, remaining) ==
    IF remaining = 0 THEN st
    ELSE Only({PutTailBits(n, remaining - 1) : n \in {PutBitStep(st)}})

\* a tail that is left in the low-order positions of the last byte
GetBitsTailUnshifted(w, count) ==
    IF w.remaining = 0
    THEN [rv |-> count, s |-> w.st.s, bits |-> w.st.bits]
    ELSE Only({[rv |-> IF t.rv = EOF THEN EOF ELSE count, s |-> t.s,
                bits |-> Wr(w.st.bits, w.st.offset, t.b)] :
                    t \in {GetTailBits([rv |-> 0, s |-> w.st.s, b |-> 0],
                                       w.remaining)}})

\* "if (remaining != 0)" of BitFileGetBits, after the whole bytes w
GetBitsTail(w, count) ==
    IF w.remaining = 0
    THEN [rv |-> count, s |-> w.st.s, bits |-> w.st.bits]
    ELSE Only({IF t.rv = EOF
               THEN [rv |-> EOF, s |-> t.s,
                     bits |-> Wr(w.st.bits, w.st.offset, t.b)]
               ELSE [rv |-> count, s |-> t.s,
                     bits |-> Wr(w.st.bits, w.st.offset,
                                 Shl8(t.b, 8 - w.remaining))] :
                    t \in {GetTailBits([rv |-> 0, s |-> w.st.s, b |-> 0],
                                       w.remaining)}})

BitFileGetBits(s, bits, count) ==
    Only({IF w.st.rv = EOF
          THEN [rv |-> EOF, s |-> w.st.s, bits |-> w.st.bits]
          ELSE GetBitsTail(w, count) :
               w \in {GetWholeBytes([rv |-> 0, s |-> s, bits |-> bits,
                                     offset |-> 0], count, 1)}})

BitFilePutBits(s, bits, count) ==
    Only({IF w.remaining = 0 THEN [rv |-> count, s |-> w.st.s]
          ELSE [rv |-> count,
                s |-> PutTailBits([s |-> w.st.s,
                                   tmp |-> Rd(bits, w.st.offset)],
                                  w.remaining).s] :
               w \in {PutWholeBytes([s |-> s, offset |-> 0], bits, count, 1)}})

\* "if (remaining != 0)" of BitFileGetBitsLE and BitFileGetBitsBE
GetNumTail(w, count) ==
    IF w.remaining = 0
    THEN [rv |-> count, s |-> w.st.s, bits |-> w.st.bits]
    ELSE Only({[rv |-> IF t.rv = EOF THEN EOF ELSE count, s |-> t.s,
                bits |-> Wr(w.st.bits, w.st.offset, t.b)] :
                    t \in {GetTailBits([rv |-> 0, s |-> w.st.s,
                                        b |-> Rd(w.st.bits, w.st.offset)],
                                       w.remaining)}})

\* the body shared by BitFileGetBitsLE (first = 0, step = 1) and
\* BitFileGetBitsBE (first = size - 1, step = -1)
GetBitsFrom(s, bits, count, first, step) ==
    Only({IF w.st.rv = EOF
          THEN [rv |-> EOF, s |-> w.st.s, bits |-> w.st.bits]
          ELSE GetNumTail(w, count) :
               w \in {GetWholeBytes([rv |-> 0, s |-> s, bits |-> bits,
                                     offset |-> first], count, step)}})

BitFileGetBitsLE(s, bits, count, size) == GetBitsFrom(s, bits, count, 0, 1)

BitFileGetBitsBE(s, bits, count, size) ==
    IF count > size * 8 THEN [rv |-> EOF, s |-> s, bits |-> bits]
    ELSE GetBitsFrom(s, bits, count, size - 1, 0 - 1)

\* the body shared by BitFilePutBitsLE and BitFilePutBitsBE
PutBitsFrom(s, bits, count, first, step) ==
    Only({IF w.remaining = 0 THEN [rv |-> count, s |-> w.st.s]
          ELSE [rv |-> count,
                s |-> PutTailBits(
                          [s |-> w.st.s,
                           tmp |-> Shl8(Rd(bits, w.st.offset),
                                        8 - w.remaining)],
                          w.remaining).s] :
               w \in {PutWholeBytes([s |-> s, offset |-> first], bits, count,
                                    step)}})

BitFilePutBitsLE(s, bits, count, size) == PutBitsFrom(s, bits, count, 0, 1)

BitFilePutBitsBE(s, bits, count, size) ==
    IF count > size * 8 THEN [rv |-> EOF, s |-> s]
    ELSE PutBitsFrom(s, bits, count, size - 1, 0 - 1)

BitFileNotSupported(s, bits) == [rv |-> 0 - ENOTSUP, s |-> s, bits |-> bits]

BitFileGetBitsNum(s, bits, count, size) ==
    CASE s.endian = BF_LITTLE_ENDIAN -> BitFileGetBitsLE(s, bits, count, size)
      [] s.endian = BF_BIG_ENDIAN -> BitFileGetBitsBE(s, bits, count, size)
      [] OTHER -> BitFileNotSupported(s, bits)

BitFilePutBitsNum(s, bits, count, size) ==
    CASE s.endian = BF_LITTLE_ENDIAN -> BitFilePutBitsLE(s, bits, count, size)
      [] s.endian = BF_BIG_ENDIAN -> BitFilePutBitsBE(s, bits, count, size)
      [] OTHER -> [rv |-> 0 - ENOTSUP, s |-> s]

(***************************************************************************)
(* An integer of size bytes as the host lays it out in memory, and back.   *)
(* An unsigned int is held as its UINT_SIZE bytes, least significant       *)
(* first (its values do not all fit the integers of the model checker):    *)
(* U32(v) is v modulo 2^32.                                                *)
(***************************************************************************)
HostLayout(digits, endian) ==
    [i \in 1 .. Len(digits) |->
        IF endian = BF_BIG_ENDIAN THEN digits[Len(digits) + 1 - i]
        ELSE digits[i]]

HostBytes(v, size, endian) ==
    HostLayout([i \in 1 .. size |-> (v \div (256 ^ (i - 1))) % 256], endian)

U32(v) == [i \in 1 .. UINT_SIZE |-> (v \div (256 ^ (i - 1))) % 256]

RECURSIVE SumBytes(_, _, _)
SumBytes(bytes, endian, i) ==
    IF i > Len(bytes) THEN 0
    ELSE bytes[i] * (IF endian = BF_BIG_ENDIAN
                     THEN 256 ^ (Len(bytes) - i)
                     ELSE 256 ^ (i - 1))
         + SumBytes(bytes, endian, i + 1)
HostValue(bytes, endian) == SumBytes(bytes, endian, 1)

(***************************************************************************)
(* State.                                                                  *)
(*                                                                         *)
(* LZSS codec (one run of EncodeLZSS on input, then one run of DecodeLZSS  *)
(* on the file it wrote):                                                  *)
(*   pc                 where the program is                               *)
(*   endian             what DetermineEndianess returns on the host        *)
(*   input, inPos       fpIn of EncodeLZSS and the next index getc reads   *)
(*   slidingWindow, uncodedLookahead   the two global buffers              *)
(*   windowHead, uncodedHead, len, matchData   locals of EncodeLZSS        *)
(*   bfpOut             the bit file EncodeLZSS writes                     *)
(*   bfpIn, nextChar    locals of DecodeLZSS                               *)
(*   decoded            fpOut of DecodeLZSS                                *)
(*   retval             what the function that returned last returned      *)
(*   records, drecords  history: the records written and those read back   *)
(*   args               the FILE pointers of the last codec call            *)
(*   errno              errno                                              *)
(*   live               the bit_file_t structures allocated and not freed  *)
(*   asked              history: the buffers the matching library was      *)
(*                      handed and the largest match it reported           *)
(*   prev               history: the bytes written by the runs of          *)
(*                      EncodeLZSS on input that came before this one      *)
(*                                                                         *)
(* Bit stream layer on its own:                                            *)
(*   stream             the bit_file_t under test                          *)
(*   phase              what the handle is being used for                  *)
(*   wops               history: the write calls made, in order            *)
(*   rres               history: what each read call returned, in order    *)
(* and of the Huffman builder (src/unnamed/part_000):                      *)
(*   hpc                where huffmanTree is                               *)
(*   text               the array given to huffmanTree; size is its length *)
(*   reps, chars, uniq  the globals of count: the entries 0 .. uniq - 1    *)
(*   head               the queue: the nodes of its cells from head on, 0  *)
(*                      for a cell whose n is NULL; <<>> when head is NULL *)
(*   heap               the Node structures createNode has allocated, by   *)
(*                      address 1, 2, ...; address 0 is NULL               *)
(*   node               the local n of huffmanTree                         *)
(*   end                the global end of printTree                        *)
(*   table              what printTree has printed, a record per line      *)
(*   popped             history: the nodes pop has returned, in order      *)
(*   entered            history: the node and the value of end at each     *)
(*                      entry to printTree                                 *)
(***************************************************************************)
VARIABLES pc, endian, input, inPos, slidingWindow, uncodedLookahead,
          windowHead, uncodedHead, len, matchData, bfpOut, bfpIn, nextChar,
          decoded, retval, records, drecords, args, errno, live,
          asked, prev,
          stream, phase, wops, rres,
          hpc, text, reps, chars, uniq, head, heap, node, end, table,
          popped, entered

lzssVars == <<pc, endian, input, inPos, slidingWindow, uncodedLookahead,
              windowHead, uncodedHead, len, matchData, bfpOut, bfpIn,
              nextChar, decoded, retval, records, drecords, args, errno,
              live, asked, prev>>
bitVars == <<stream, phase, wops, rres>>
huffVars == <<hpc, text, reps, chars, uniq, head, heap, node, end, table,
          popped, entered>>
vars == <<lzssVars, bitVars, huffVars>>

Wrap(value, limit) == value % limit

(***************************************************************************)
(* The array slidingWindow[WINDOW_SIZE] is held as the byte memset filled  *)
(* it with and the cells that differ from that byte.  WinGet is            *)
(* slidingWindow[i] read, WinSet is slidingWindow[i] = v.                  *)
(***************************************************************************)
WinFill(c) == [fill |-> c, cells |-> [j \in {} |-> 0]]
WinGet(w, i) == IF i \in DOMAIN w.cells THEN w.cells[i] ELSE w.fill
WinSet(w, i, v) ==
    LET D == DOMAIN w.cells
    IN  IF v = w.fill
        THEN [w EXCEPT !.cells = [j \in D \ {i} |-> w.cells[j]]]
        ELSE [w EXCEPT !.cells = [j \in D \cup {i} |->
                                     IF j = i THEN v ELSE w.cells[j]]]

InBytes == {0, SPACE, 65}

RECURSIVE SeqsUpTo(_, _)
SeqsUpTo(S, n) ==
    IF n = 0 THEN {<<>>}
    ELSE LET shorter == SeqsUpTo(S, n - 1)
         IN  shorter \cup {Append(q, x) : q \in {r \in shorter : Len(r) = n - 1},
                                           x \in S}

\* a run of one byte that is longer than the lookahead
LongRuns == {[i \in 1 .. MAX_CODED + 1 |-> 0]}

\* an input longer than the lookahead whose bytes all differ
LongInputs == {[i \in 1 .. MAX_CODED + 2 |-> i - 1]}

\* the FILE pointers a codec function can be called with
Args == [fpIn : {NULL, "FILE"}, fpOut : {NULL, "FILE"}]

NoFile == MakeBitFile(<<>>, BF_READ, BF_UNKNOWN_ENDIAN)

\* neither codec function has been called
LzssIdle ==
    /\ pc = "off" /\ endian = BF_LITTLE_ENDIAN /\ input = <<>> /\ inPos = 1
    /\ slidingWindow = WinFill(0)
    /\ uncodedLookahead = [i \in 0 .. MAX_CODED - 1 |-> 0]
    /\ windowHead = 0 /\ uncodedHead = 0 /\ len = 0
    /\ matchData = [offset |-> U32(0), length |-> 0]
    /\ bfpOut = NoFile /\ bfpIn = NoFile /\ nextChar = 0
    /\ decoded = <<>> /\ retval = 0 /\ records = <<>> /\ drecords = <<>>
    /\ args = [fpIn |-> "FILE", fpOut |-> "FILE"] /\ errno = 0 /\ live = 0
    /\ asked = {} /\ prev = <<>>

\* what stands for a pointer or a character that was never assigned
UNINIT == 0 - 2

\* huffmanTree has not been called: the globals as the program starts
HuffStart ==
    /\ reps = <<>> /\ chars = <<>> /\ uniq = 0
    /\ head = <<>> /\ heap = <<>> /\ node = UNINIT /\ end = 0 /\ table = <<>>
    /\ popped = <<>> /\ entered = <<>>
HuffIdle == hpc = "off" /\ text = <<>> /\ HuffStart

\* no bit file is under test
BitIdle ==
    /\ stream = NoFile /\ phase = "off" /\ wops = <<>> /\ rres = <<>>

(***************************************************************************)
(* FindMatch.  The search is done by the PFAC library, which is not part   *)
(* of the program: its answers are inputs.  input_size is                  *)
(* strlen(slidingWindow): the index of the first zero byte of the window,  *)
(* and when the window holds none the read runs past the array, so the     *)
(* value is whatever the bytes that follow give.  The loop over            *)
(* h_matched_result keeps the first largest entry m, so the descriptor is  *)
(* (windowHead - m, m) in unsigned int arithmetic, or (0, 0) when every    *)
(* entry is zero; the operator is the set of descriptors the call can      *)
(* return.                                                                 *)
(***************************************************************************)
strlen(window) ==
    LET zeros == IF window.fill = 0
                 THEN {k \in 0 .. Cardinality(DOMAIN window.cells) :
                         k < WINDOW_SIZE /\ k \notin DOMAIN window.cells}
                 ELSE {k \in DOMAIN window.cells : window.cells[k] = 0}
    IN  IF zeros # {}
        THEN {CHOOSE k \in zeros : \A j \in zeros : k <= j}
        ELSE WINDOW_SIZE .. WINDOW_SIZE + MaxOverrun

\* the largest entry PFAC_matchFromHost can leave in h_matched_result
MatchedMax(input_size) == IF input_size = 0 THEN {0} ELSE 0 .. MaxMatched

FindMatch(wHead, uHead, window, lookahead) ==
    {[length |-> m,
      offset |-> IF m = 0 THEN U32(0) ELSE U32(wHead - m)] :
        m \in UNION {MatchedMax(n) : n \in strlen(window)}}

\* a ReplaceChar that leaves the window as it is
ReplaceNothing(window, charIndex, replacement) == window

ReplaceChar(window, charIndex, replacement) ==
    WinSet(window, charIndex, replacement)

(***************************************************************************)
(* EncodeLZSS.                                                             *)
(***************************************************************************)
\* the copy of MAX_CODED bytes of input into the lookahead
FillLookahead(lookahead, in) ==
    [i \in DOMAIN lookahead |->
        IF i < MAX_CODED /\ i < Len(in) THEN in[i + 1] ELSE lookahead[i]]

\* a record whose length field holds the length itself
EmitRecordUnadjusted(bf, md, c) ==
    IF md.length <= MAX_UNCODED
    THEN Only({BitFilePutChar(c, b1).s : b1 \in {BitFilePutBit(UNCODED, bf).s}})
    ELSE Only({Only({BitFilePutBitsNum(b2,
                         HostBytes(md.length, UINT_SIZE, bf.endian),
                         LENGTH_BITS, UINT_SIZE).s :
                    b2 \in {BitFilePutBitsNum(b1,
                                HostLayout(md.offset, bf.endian),
                                OFFSET_BITS, UINT_SIZE).s}}) :
               b1 \in {BitFilePutBit(ENCODED, bf).s}})

\* the record written for a clamped match md with head byte c
EmitRecord(bf, md, c) ==
    IF md.length <= MAX_UNCODED
    THEN Only({BitFilePutChar(c, b1).s : b1 \in {BitFilePutBit(UNCODED, bf).s}})
    ELSE Only({Only({BitFilePutBitsNum(b2,
                         HostBytes(md.length - (MAX_UNCODED + 1), UINT_SIZE,
                                   bf.endian),
                         LENGTH_BITS, UINT_SIZE).s :
                    b2 \in {BitFilePutBitsNum(b1,
                                HostLayout(md.offset, bf.endian),
                                OFFSET_BITS, UINT_SIZE).s}}) :
               b1 \in {BitFilePutBit(ENCODED, bf).s}})

\* the body of the two loops that replace the bytes of the window; st is the
\* record [w, la, wh, uh, len, pos] of the buffers, heads, len and input
\* position: the first loop runs while getc gives a byte, the second after EOF
AdvanceStep(st, in) ==
    LET w2 == ReplaceChar(st.w, st.wh, st.la[st.uh])
        wh2 == Wrap(st.wh + 1, WINDOW_SIZE)
        uh2 == Wrap(st.uh + 1, MAX_CODED)
    IN  IF st.pos <= Len(in)
        THEN [st EXCEPT !.w = w2, !.la = [st.la EXCEPT ![st.uh] = in[st.pos]],
                        !.wh = wh2, !.uh = uh2, !.pos = @ + 1]
        ELSE [st EXCEPT !.w = w2, !.wh = wh2, !.uh = uh2, !.len = @ - 1]

RECURSIVE Advance(_, _, _, _)
Advance(st, in, i, length) ==
    IF i >= length THEN st
    ELSE Only({Advance(n, in, i + 1, length) : n \in {AdvanceStep(st, in)}})

\* a match taken as FindMatch returned it
Unclamped(md, n) == md

\* the match as clamped to len, and the number of bytes the record covers
Clamp(md, n) == IF md.length > n THEN [md EXCEPT !.length = n] ELSE md
Covered(md) == IF md.length <= MAX_UNCODED THEN 1 ELSE md.length

\* the process ends inside FindMatch: the library reports a failure and
\* FindMatch calls exit(1)
FindMatchExits ==
    /\ pc' = "exit"
    /\ UNCHANGED <<matchData, asked>>

FindMatchReturns ==
    /\ \E md \in FindMatch(windowHead', uncodedHead', slidingWindow',
                            uncodedLookahead') : matchData' = md
    /\ pc' = "encode"
    /\ UNCHANGED asked

\* the call returns, with a library that reports the same when it is handed
\* the same: what it reads are the two buffers (the pattern is the string at
\* uncodedLookahead, the text the string at slidingWindow and what strlen
\* finds after it)
FindMatchAnswers ==
    /\ \E md \in FindMatch(windowHead', uncodedHead', slidingWindow',
                            uncodedLookahead') :
          /\ \A a \in asked :
                (a.window = slidingWindow' /\ a.pattern = uncodedLookahead')
                    => md.length = a.matched
          /\ matchData' = md
          /\ asked' = asked \cup {[window |-> slidingWindow',
                                   pattern |-> uncodedLookahead',
                                   matched |-> md.length]}
    /\ pc' = "encode"

\* a check of the input file alone
NullInput(a) == a.fpIn = NULL

\* "if ((NULL == fpIn) || (NULL == fpOut))" of both codec functions
NullArgs(a) == a.fpIn = NULL \/ a.fpOut = NULL

\* the return of -1 that follows it
RejectArgs ==
    /\ errno' = ENOENT
    /\ retval' = 0 - 1
    /\ pc' = "failed"
    /\ UNCHANGED <<endian, input, inPos, slidingWindow, uncodedLookahead,
                   windowHead, uncodedHead, len, matchData, bfpOut, bfpIn,
                   nextChar, decoded, records, drecords, live, asked, prev>>

\* EncodeLZSS up to the loop, Found being the call of FindMatch
EncodeStartWith(Found) ==
    /\ pc = "start"
    /\ \E a \in Args : args' = a
    /\ IF NullArgs(args')
       THEN RejectArgs
       ELSE /\ bfpOut' = MakeBitFile(<<>>, BF_WRITE, endian)
            /\ live' = live + 1
            /\ windowHead' = 0
            /\ uncodedHead' = 0
            /\ slidingWindow' = WinFill(SPACE)
            /\ uncodedLookahead' = FillLookahead(uncodedLookahead, input)
            /\ len' = IF Len(input) < MAX_CODED THEN Len(input) ELSE MAX_CODED
            /\ inPos' = len' + 1
            /\ IF len' = 0
               THEN /\ pc' = "encoded" /\ retval' = 0
                    /\ UNCHANGED <<matchData, asked>>
               ELSE /\ UNCHANGED retval
                    /\ Found
            /\ UNCHANGED <<endian, input, bfpIn, nextChar, decoded, records,
                           drecords, errno, prev>>
    /\ UNCHANGED <<bitVars, huffVars>>

EncodeStart == EncodeStartWith(FindMatchReturns \/ FindMatchExits)

\* one pass of the loop of EncodeLZSS, Found being the call of FindMatch
EncodeIterationWith(Found) ==
    /\ pc = "encode"
    /\ len > 0
    /\ \E md \in {Clamp(matchData, len)} :
        \E st \in {Advance([w |-> slidingWindow, la |-> uncodedLookahead,
                            wh |-> windowHead, uh |-> uncodedHead,
                            len |-> len, pos |-> inPos],
                           input, 0, Covered(md))} :
           /\ bfpOut' = EmitRecord(bfpOut, md, uncodedLookahead[uncodedHead])
           /\ records' = Append(records,
                 IF md.length <= MAX_UNCODED
                 THEN [flag |-> UNCODED, byte |-> uncodedLookahead[uncodedHead],
                       offset |-> U32(0), length |-> 1]
                 ELSE [flag |-> ENCODED, byte |-> 0,
                       offset |-> md.offset, length |-> md.length])
           /\ slidingWindow' = st.w
           /\ uncodedLookahead' = st.la
           /\ windowHead' = st.wh
           /\ uncodedHead' = st.uh
           /\ len' = st.len
           /\ inPos' = st.pos
    /\ Found
    /\ UNCHANGED <<endian, input, bfpIn, nextChar, decoded, retval, drecords,
                   args, errno, live, prev>>
    /\ UNCHANGED <<bitVars, huffVars>>

EncodeIteration == EncodeIterationWith(FindMatchReturns \/ FindMatchExits)

EncodeFinish ==
    /\ pc = "encode"
    /\ len = 0
    /\ bfpOut' = BitFileToFILE(bfpOut).s
    /\ live' = live - 1
    /\ retval' = 0
    /\ pc' = "encoded"
    /\ UNCHANGED <<endian, input, inPos, slidingWindow, uncodedLookahead,
                   windowHead, uncodedHead, len, matchData, bfpIn, nextChar,
                   decoded, records, drecords, args, errno, asked, prev>>
    /\ UNCHANGED <<bitVars, huffVars>>

(***************************************************************************)
(* DecodeLZSS.                                                             *)
(***************************************************************************)
\* "for (i = 0; i < code.length; i++)": the copy of the match to the output
\* file and to uncodedLookahead; st is the record [la, out]
CopyOutStep(window, st, code, i) ==
    LET c == WinGet(window, Wrap(code.offset + i, WINDOW_SIZE))
    IN  [la |-> [st.la EXCEPT ![i] = c], out |-> Append(st.out, c)]

RECURSIVE CopyOut(_, _, _, _)
CopyOut(window, st, code, i) ==
    IF i >= code.length THEN st
    ELSE Only({CopyOut(window, n, code, i + 1) :
                    n \in {CopyOutStep(window, st, code, i)}})

\* the second loop: the copy of uncodedLookahead into the window
RECURSIVE CopyIn(_, _, _, _, _)
CopyIn(window, la, next, i, length) ==
    IF i >= length THEN window
    ELSE Only({CopyIn(w2, la, next, i + 1, length) :
                    w2 \in {WinSet(window, Wrap(next + i, WINDOW_SIZE), la[i])}})

\* a pass that leaves the loop and leaves a byte in the output
BrokeWriting(bf, window, la, next, out) ==
    [brk |-> TRUE, bf |-> bf, w |-> window, la |-> la, next |-> next,
     out |-> <<SPACE>>, rec |-> <<>>]

\* a pass that leaves the loop and still writes a byte
BrokeEmitting(bf, window, la, next, out) ==
    [brk |-> TRUE, bf |-> bf, w |-> window, la |-> la, next |-> next,
     out |-> Append(out, 0), rec |-> <<>>]

\* a pass that met the end of the file and stays in the loop
BrokeStaying(bf, window, la, next, out) ==
    [brk |-> FALSE, bf |-> bf, w |-> window, la |-> la, next |-> next,
     out |-> out, rec |-> <<>>]

\* one pass of "while (1)" gives the record [brk, bf, w, la, next, out, rec],
\* where brk tells whether the pass left the loop and rec is the record read
Broke(bf, window, la, next, out) ==
    [brk |-> TRUE, bf |-> bf, w |-> window, la |-> la, next |-> next,
     out |-> out, rec |-> <<>>]

\* "if (c == UNCODED)", g being what BitFileGetChar returned
DecodeUncoded(g, window, la, next, out) ==
    IF g.rv = EOF THEN Broke(g.s, window, la, next, out)
    ELSE [brk |-> FALSE, bf |-> g.s, w |-> WinSet(window, next, g.rv),
          la |-> la, next |-> Wrap(next + 1, WINDOW_SIZE),
          out |-> Append(out, g.rv),
          rec |-> <<[flag |-> UNCODED, byte |-> g.rv, offset |-> 0,
                     length |-> 1]>>]

\* a copy that writes each byte to the window as soon as it is read
RECURSIVE CopyThrough(_, _, _, _, _)
CopyThrough(window, out, next, code, i) ==
    IF i >= code.length THEN [w |-> window, out |-> out]
    ELSE Only({CopyThrough(WinSet(window, Wrap(next + i, WINDOW_SIZE), c),
                           Append(out, c), next, code, i + 1)
               : c \in {WinGet(window, Wrap(code.offset + i, WINDOW_SIZE))}})

CopyUnstaged(bf, window, la, next, out, code) ==
    Only({[brk |-> FALSE, bf |-> bf, w |-> c.w, la |-> la,
           next |-> Wrap(next + code.length, WINDOW_SIZE), out |-> c.out,
           rec |-> <<[flag |-> ENCODED, byte |-> 0, offset |-> code.offset,
                      length |-> code.length]>>] :
          c \in {CopyThrough(window, out, next, code, 0)}})

\* the two copy loops and the advance of nextChar
CopyMatch(bf, window, la, next, out, code) ==
    Only({[brk |-> FALSE, bf |-> bf,
           w |-> CopyIn(window, c.la, next, 0, code.length), la |-> c.la,
           next |-> Wrap(next + code.length, WINDOW_SIZE), out |-> c.out,
           rec |-> <<[flag |-> ENCODED, byte |-> 0, offset |-> code.offset,
                      length |-> code.length]>>] :
          c \in {CopyOut(window, [la |-> la, out |-> out], code, 0)}})

\* a decoder that takes the length field as the length of the match
DecodeLengthUnadjusted(o, l, window, la, next, out) ==
    IF l.rv = EOF THEN Broke(l.s, window, la, next, out)
    ELSE Only({CopyMatch(l.s, window, la, next, out, code) :
               code \in {[offset |-> HostValue(o.bits, l.s.endian),
                          length |-> HostValue(l.bits, l.s.endian)]}})

\* after both fields were read: "code.length += MAX_UNCODED + 1" and the copy
DecodeLength(o, l, window, la, next, out) ==
    IF l.rv = EOF THEN Broke(l.s, window, la, next, out)
    ELSE Only({CopyMatch(l.s, window, la, next, out, code) :
               code \in {[offset |-> HostValue(o.bits, l.s.endian),
                          length |-> HostValue(l.bits, l.s.endian)
                                        + MAX_UNCODED + 1]}})

\* the else branch: code.offset and code.length are zeroed, then read
DecodeEncoded(bf, window, la, next, out) ==
    Only({IF o.rv = EOF THEN Broke(o.s, window, la, next, out)
          ELSE Only({DecodeLength(o, l, window, la, next, out) :
                     l \in {BitFileGetBitsNum(o.s,
                                HostBytes(0, UINT_SIZE, bf.endian),
                                LENGTH_BITS, UINT_SIZE)}}) :
          o \in {BitFileGetBitsNum(bf, HostBytes(0, UINT_SIZE, bf.endian),
                                   OFFSET_BITS, UINT_SIZE)}})

DecodeRecord(bf, window, la, next, out) ==
    Only({IF f.rv = EOF THEN Broke(f.s, window, la, next, out)
          ELSE IF f.rv = UNCODED
          THEN Only({DecodeUncoded(g, window, la, next, out) :
                     g \in {BitFileGetChar(f.s)}})
          ELSE DecodeEncoded(f.s, window, la, next, out) :
          f \in {BitFileGetBit(bf)}})

DecodeStart ==
    /\ pc = "encoded"
    /\ \E a \in Args : args' = a
    /\ IF NullArgs(args')
       THEN RejectArgs
       ELSE /\ bfpIn' = MakeBitFile(bfpOut.data, BF_READ, endian)
            /\ live' = live + 1
            /\ slidingWindow' = WinFill(SPACE)
            /\ nextChar' = 0
            /\ pc' = "decode"
            /\ UNCHANGED <<endian, input, inPos, uncodedLookahead, windowHead,
                           uncodedHead, len, matchData, bfpOut, decoded,
                           retval, records, drecords, errno, asked, prev>>
    /\ UNCHANGED <<bitVars, huffVars>>

DecodeIteration ==
    /\ pc = "decode"
    /\ \E d \in {DecodeRecord(bfpIn, slidingWindow, uncodedLookahead,
                               nextChar, decoded)} :
           /\ slidingWindow' = d.w
           /\ uncodedLookahead' = d.la
           /\ nextChar' = d.next
           /\ decoded' = d.out
           /\ drecords' = drecords \o d.rec
           /\ IF d.brk
              THEN /\ bfpIn' = BitFileToFILE(d.bf).s
                   /\ live' = live - 1
                   /\ retval' = 0
                   /\ pc' = "done"
              ELSE /\ bfpIn' = d.bf
                   /\ pc' = "decode"
                   /\ UNCHANGED <<retval, live>>
    /\ UNCHANGED <<endian, input, inPos, windowHead, uncodedHead, len,
                   matchData, bfpOut, records, args, errno, asked, prev>>
    /\ UNCHANGED <<bitVars, huffVars>>

(***************************************************************************)
(* Bit sequences, most significant bit first: what a file holds and what   *)
(* a call is meant to transfer.                                            *)
(***************************************************************************)
Bits8(b) == [i \in 1 .. 8 |-> BitAt(b, 8 - i)]

RECURSIVE BytesBits(_)
BytesBits(bytes) ==
    IF bytes = <<>> THEN <<>> ELSE Bits8(Head(bytes)) \o BytesBits(Tail(bytes))

RECURSIVE BitsValue(_)
BitsValue(q) ==
    IF q = <<>> THEN 0 ELSE 2 * BitsValue(SubSeq(q, 1, Len(q) - 1)) + q[Len(q)]

\* the bits an integer v of count bits is written as: whole bytes from the
\* least significant, then the low bits of the next byte
NumBits(v, count) ==
    LET whole == count \div 8
        digit(k) == (v \div (256 ^ k)) % 256
    IN  BytesBits([k \in 1 .. whole |-> digit(k - 1)])
        \o [i \in 1 .. count % 8 |-> BitAt(digit(whole), (count % 8) - i)]

\* the bits one recorded write call puts on the stream
OpBits(w) ==
    CASE w.op = "bit" -> <<IF w.c # 0 THEN 1 ELSE 0>>
      [] w.op = "char" -> Bits8(w.c)
      [] w.op = "bits" -> SubSeq(BytesBits(w.bits), 1, w.count)
      [] w.op = "num" -> NumBits(w.v, w.count)

RECURSIVE OpsBits(_)
OpsBits(ws) == IF ws = <<>> THEN <<>> ELSE OpBits(Head(ws)) \o OpsBits(Tail(ws))

\* bits filled with zeros to a whole number of bytes, as bytes
Padded(q) == q \o [i \in 1 .. (8 - (Len(q) % 8)) % 8 |-> 0]
Packed(q) ==
    [k \in 1 .. Len(Padded(q)) \div 8 |->
        BitsValue(SubSeq(Padded(q), 8 * k - 7, 8 * k))]

(***************************************************************************)
(* The codec: EncodeLZSS on any input of at most MaxInput bytes, on a      *)
(* little endian or a big endian host, then DecodeLZSS on what it wrote.   *)
(* The two buffers are globals of static storage: zero when the process    *)
(* starts.                                                                 *)
(***************************************************************************)
Init ==
    /\ pc = "start"
    /\ endian \in {BF_LITTLE_ENDIAN, BF_BIG_ENDIAN}
    /\ input \in SeqsUpTo(InBytes, MaxInput) \cup LongRuns \cup LongInputs
    /\ inPos = 1
    /\ slidingWindow = WinFill(0)
    /\ uncodedLookahead = [i \in 0 .. MAX_CODED - 1 |-> 0]
    /\ windowHead = 0 /\ uncodedHead = 0 /\ len = 0
    /\ matchData = [offset |-> U32(0), length |-> 0]
    /\ bfpOut = NoFile /\ bfpIn = NoFile /\ nextChar = 0
    /\ decoded = <<>> /\ retval = 0 /\ records = <<>> /\ drecords = <<>>
    /\ args = [fpIn |-> "FILE", fpOut |-> "FILE"] /\ errno = 0 /\ live = 0
    /\ asked = {} /\ prev = <<>>
    /\ BitIdle /\ HuffIdle

Next ==
    \/ EncodeStart
    \/ EncodeIteration
    \/ EncodeFinish
    \/ DecodeStart
    \/ DecodeIteration

Spec == Init /\ [][Next]_vars

\* the value of an unsigned int held as its bytes, least significant first,
\* when it is a window index, and the 12 bits of it that a record holds
InWindow(u) == u[3] = 0 /\ u[4] = 0 /\ u[1] + 256 * u[2] < WINDOW_SIZE
OffsetField(u) == (u[1] + 256 * u[2]) % (2 ^ OFFSET_BITS)

\* the bits of one record the encoder emitted
RecBits(r) ==
    IF r.flag = UNCODED THEN <<1>> \o Bits8(r.byte)
    ELSE <<0>> \o NumBits(OffsetField(r.offset), OFFSET_BITS)
              \o NumBits(r.length - (MAX_UNCODED + 1), LENGTH_BITS)

RECURSIVE RecsBits(_)
RecsBits(rs) ==
    IF rs = <<>> THEN <<>> ELSE RecBits(Head(rs)) \o RecsBits(Tail(rs))

Literals(rs) == Cardinality({i \in 1 .. Len(rs) : rs[i].flag = UNCODED})
BackRefs(rs) == Cardinality({i \in 1 .. Len(rs) : rs[i].flag = ENCODED})
RecordBitCount(rs) == 9 * Literals(rs) + 17 * BackRefs(rs)

RECURSIVE Covers(_)
Covers(rs) == IF rs = <<>> THEN 0 ELSE Head(rs).length + Covers(Tail(rs))

\* EncodeLZSS has returned
Encoded == pc \in {"encoded", "decode", "done"}

\* C1: DecodeLZSS on what EncodeLZSS wrote for an input writes that input.
RoundTrip == pc = "done" => decoded = input

\* C6: a record is the flag 1 and 8 bits of a byte, or the flag 0, 12 bits
\* of offset and 4 bits holding length - (MAX_UNCODED + 1) for a length of
\* MAX_UNCODED + 1 to MAX_CODED; the file is these records and nothing else,
\* ceil((9 L + 17 B) / 8) bytes for L literals and B back-references.
RecordsAreNineOrSeventeenBits ==
    /\ \A i \in 1 .. Len(records) :
          /\ Len(RecBits(records[i]))
                = (IF records[i].flag = UNCODED THEN 9 ELSE 17)
          /\ records[i].flag = ENCODED =>
                /\ records[i].length >= MAX_UNCODED + 1
                /\ records[i].length <= MAX_CODED
    /\ Encoded =>
          /\ bfpOut.data = Packed(RecsBits(records))
          /\ Len(bfpOut.data) = (RecordBitCount(records) + 7) \div 8

\* a literal and a back-reference written, and a last byte that is padded
RecordsAreNineOrSeventeenBitsCase ==
    /\ pc = "encoded"
    /\ Literals(records) > 0 /\ BackRefs(records) > 0
    /\ RecordBitCount(records) % 8 # 0

\* C7: the bits that pad the last byte give the decoder no record and no
\* byte: it reads the records the encoder wrote, leaves its loop when the
\* file is at its end, and returns 0.
PaddingYieldsNoRecord ==
    /\ pc = "decode" => Len(drecords) <= Len(records)
    /\ pc = "done" =>
          /\ retval = 0
          /\ Len(drecords) = Len(records)
          /\ Len(decoded) = Covers(records)
          /\ bfpIn.pos = Len(bfpIn.data) + 1

\* a stream that ends with seven bits of padding has been decoded
PaddingYieldsNoRecordCase ==
    /\ pc = "done"
    /\ Len(records) > 0
    /\ RecordBitCount(records) % 8 = 1
    /\ Len(drecords) = Len(records)

\* the lookahead matches the window for n bytes from index p
MatchAt(p, n) ==
    \A i \in 0 .. n - 1 :
        WinGet(slidingWindow, Wrap(p + i, WINDOW_SIZE))
            = uncodedLookahead[Wrap(uncodedHead + i, MAX_CODED)]

\* the length of the longest match
Longest ==
    CHOOSE n \in 0 .. MAX_CODED :
        /\ \E p \in 0 .. WINDOW_SIZE - 1 : MatchAt(p, n)
        /\ \A k \in n + 1 .. MAX_CODED :
              \A p \in 0 .. WINDOW_SIZE - 1 : ~MatchAt(p, k)

\* C9: what FindMatch returned is the length of the longest match of the
\* lookahead in the window and a window index at which that match starts;
\* the length is 0 when no window byte is the first lookahead byte.
FindMatchIsLongest ==
    pc = "encode" =>
        /\ matchData.length = Longest
        /\ InWindow(matchData.offset)
        /\ MatchAt(OffsetField(matchData.offset), matchData.length)

\* some descriptor FindMatch can return, whatever the matcher reports, is
\* the longest match: violated too, at the first call on the input 0x20
FindMatchCanBeLongest ==
    pc = "encode" =>
        \E md \in FindMatch(windowHead, uncodedHead, slidingWindow,
                            uncodedLookahead) :
            /\ md.length = Longest
            /\ InWindow(md.offset)
            /\ MatchAt(OffsetField(md.offset), md.length)

\* C10: what FindMatch returned has its offset in [0, WINDOW_SIZE) and its
\* length in [0, MAX_CODED], and every offset written is a window index.
FindMatchInRange ==
    /\ pc = "encode" =>
          /\ InWindow(matchData.offset)
          /\ matchData.length <= MAX_CODED
    /\ \A i \in 1 .. Len(records) :
          records[i].flag = ENCODED => InWindow(records[i].offset)

\* C11: EncodeLZSS on an input of 0 bytes writes 0 bytes and returns 0, and
\* DecodeLZSS on an input of 0 bytes writes 0 bytes and returns 0.
EmptyGivesEmpty ==
    /\ (pc = "encoded" /\ input = <<>>) => (bfpOut.data = <<>> /\ retval = 0)
    /\ (pc = "done" /\ bfpIn.data = <<>>) => (decoded = <<>> /\ retval = 0)

\* both functions have returned on their empty files
EmptyGivesEmptyCase ==
    pc = "done" /\ input = <<>> /\ bfpIn.data = <<>> /\ decoded = <<>>

\* C12: EncodeLZSS on the one byte 0x41 writes the two bytes 0xA0 0x80: the
\* flag 1, the bits 01000001 of the byte, and seven bits 0 of padding.
OneLiteralStream ==
    (Encoded /\ input = <<65>>) => bfpOut.data = <<160, 128>>

\* C12 as stated: the 16 bits written are 1 00000001 0000001
OneLiteralStreamAsStated ==
    (Encoded /\ input = <<65>>) =>
        BytesBits(bfpOut.data)
            = <<1, 0, 0, 0, 0, 0, 0, 0, 1, 0, 0, 0, 0, 0, 0, 1>>

OneLiteralStreamCase ==
    pc = "encoded" /\ input = <<65>> /\ Len(bfpOut.data) = 2

\* the bytes of the input the records before record i do not cover
Uncovered(i) == Len(input) - Covers(SubSeq(records, 1, i - 1))

\* C13: for a run of more than MAX_CODED equal bytes that are not the space
\* the first record is a literal and every later record a back-reference of
\* the longest length left, min(MAX_CODED, bytes of the run not yet encoded).
LongRunIsBackReferences ==
    (Encoded /\ input \in LongRuns) =>
        /\ records[1].flag = UNCODED
        /\ \A i \in 2 .. Len(records) :
              /\ records[i].flag = ENCODED
              /\ records[i].length
                    = (IF Uncovered(i) < MAX_CODED THEN Uncovered(i)
                       ELSE MAX_CODED)

EncoderAdvances ==
    [][pc = "encode" =>
          IF len > 0
          THEN LET m == IF matchData.length > len THEN len
                        ELSE matchData.length
                   k == IF m <= MAX_UNCODED THEN 1 ELSE m
                   r == records'[Len(records')]
               IN  /\ records' = Append(records, r)
                   /\ IF m <= MAX_UNCODED
                      THEN /\ r.flag = UNCODED
                           /\ r.byte = uncodedLookahead[uncodedHead]
                           /\ r.length = 1
                      ELSE /\ r.flag = ENCODED
                           /\ r.length = m
                   /\ r.length <= len
                   /\ windowHead' = Wrap(windowHead + k, WINDOW_SIZE)
                   /\ uncodedHead' = Wrap(uncodedHead + k, MAX_CODED)
                   /\ (inPos' - inPos) + (len - len') = k
                   /\ Covers(records') = (inPos' - 1) - len'
          ELSE Covers(records) = Len(input)]_vars

\* an input of four bytes or more encoded to the end, with a literal and a
\* back-reference of three bytes among the records
EncoderAdvancesCase ==
    /\ pc = "encoded"
    /\ Len(input) >= 4
    /\ Literals(records) > 0
    /\ \E i \in 1 .. Len(records) :
          records[i].flag = ENCODED /\ records[i].length = 3
    /\ Covers(records) = Len(input)

\* the window after the first n bytes of an input went through it
RECURSIVE WindowAfter(_, _)
WindowAfter(in, n) ==
    IF n = 0 THEN WinFill(SPACE)
    ELSE Only({WinSet(w, Wrap(n - 1, WINDOW_SIZE), in[n])
               : w \in {WindowAfter(in, n - 1)}})

\* the number of input bytes encoded: those read less those in the
\* lookahead
EncodedBytes == (inPos - 1) - len

\* C27: at each FindMatch call of EncodeLZSS, n bytes of the input being
\* encoded, windowHead is n mod WINDOW_SIZE, slidingWindow holds from
\* windowHead on the last WINDOW_SIZE bytes of WINDOW_SIZE spaces followed
\* by the first n input bytes, len is at most MAX_CODED, and
\* uncodedLookahead holds from uncodedHead on the input bytes n .. n+len-1
WindowFollowsInput ==
    pc = "encode" =>
        /\ windowHead = EncodedBytes % WINDOW_SIZE
        /\ EncodedBytes < WINDOW_SIZE
        /\ slidingWindow = WindowAfter(input, EncodedBytes)
        /\ len <= MAX_CODED
        /\ \A j \in 0 .. len - 1 :
              uncodedLookahead[Wrap(uncodedHead + j, MAX_CODED)]
                  = input[EncodedBytes + j + 1]

\* a FindMatch call after the loop took a byte from the file: the
\* lookahead is full and starts past its first slot
WindowFollowsInputCase ==
    /\ pc = "encode"
    /\ input \in LongInputs
    /\ inPos > MAX_CODED + 1
    /\ len = MAX_CODED /\ uncodedHead > 0 /\ windowHead > 0

\* C29: when DecodeLZSS reads what EncodeLZSS wrote, after each record
\* the window of the decoder is the window the encoder had after it wrote
\* that record and advanced, which holds the input bytes the records so far
\* cover, and nextChar is the windowHead the encoder had there
DecoderFollowsEncoder ==
    (pc \in {"decode", "done"} /\ Len(drecords) <= Len(records)) =>
        LET n == Covers(SubSeq(records, 1, Len(drecords)))
        IN  /\ slidingWindow = WindowAfter(input, n)
            /\ nextChar = n % WINDOW_SIZE

(***************************************************************************)
(* DecodeLZSS on files that EncodeLZSS need not have written: up to        *)
(* MaxRecords records, literals and back-references whose source lies      *)
(* before, on and after the place the decoder writes to.                   *)
(***************************************************************************)
(***************************************************************************)
(* The codec as a running program: a function that was called takes its    *)
(* next step, and a call of the matching library returns.  The inputs are  *)
(* the runs of one letter and the inputs longer than the lookahead, on a   *)
(* little endian host.                                                     *)
(***************************************************************************)
InitLive ==
    /\ Init
    /\ endian = BF_LITTLE_ENDIAN
    /\ Len(input) > MAX_CODED \/ \A i \in 1 .. Len(input) : input[i] = 65

SpecLive == InitLive /\ [][Next]_vars /\ WF_vars(Next)

\* the bits of its file a READ handle has given out
BitsConsumed(s) == 8 * (s.pos - 1) - s.bitCount

\* C37: EncodeLZSS and DecodeLZSS end on every finite input: each pass of
\* the encoder's loop reads at least one new byte of the input or takes at
\* least one from len, and the loop is left when len is 0; each pass of the
\* decoder's loop that stays in the loop takes at least one bit of the file,
\* and the loop is left at the first EOF
CodecTerminates ==
    /\ [][(pc = "encode" /\ len > 0) => (inPos' > inPos \/ len' < len)]_vars
    /\ [][(pc = "encode" /\ len = 0) => pc' = "encoded"]_vars
    /\ [][pc = "decode" =>
            IF pc' = "decode"
            THEN BitsConsumed(bfpIn') > BitsConsumed(bfpIn)
            ELSE pc' = "done" /\ bfpIn'.pos = Len(bfpIn'.data) + 1]_vars
    /\ (pc = "encode" ~> pc \in {"encoded", "exit"})
    /\ (pc = "decode" ~> pc = "done")

\* an input longer than the lookahead has been encoded and decoded to the
\* end, in more than one pass of each loop
CodecTerminatesCase ==
    /\ pc = "done" /\ Len(input) > MAX_CODED
    /\ Len(records) > 1 /\ Len(drecords) > 1
    /\ len = 0 /\ inPos = Len(input) + 1

(***************************************************************************)
(* EncodeLZSS run on the same input more than once, the later runs in a    *)
(* process where other codec operations ran before: the two buffers are    *)
(* globals, and hold what those operations left in them.  The matching     *)
(* library is the same in every run: it reports the same when it is handed *)
(* the same buffers.                                                       *)
(***************************************************************************)
MaxEarlier == 1
MaxAgain == 3
WindowsLeft == {WinFill(0), WinFill(66)}
LookaheadsLeft == {[i \in 0 .. MAX_CODED - 1 |-> b] : b \in {0, 66}}

EncodeStartAnswered == EncodeStartWith(FindMatchAnswers \/ FindMatchExits)

EncodeIterationAnswered ==
    EncodeIterationWith(FindMatchAnswers \/ FindMatchExits)

\* the run is over; the input is given to EncodeLZSS again, the globals
\* holding what was left by other operations
EncodeAgain ==
    /\ pc = "encoded" /\ Len(prev) < MaxEarlier
    /\ prev' = Append(prev, bfpOut.data)
    /\ \E w \in WindowsLeft : slidingWindow' = w
    /\ \E la \in LookaheadsLeft : uncodedLookahead' = la
    /\ inPos' = 1
    /\ records' = <<>>
    /\ pc' = "start"
    /\ UNCHANGED <<endian, input, windowHead, uncodedHead, len, matchData,
                   bfpOut, bfpIn, nextChar, decoded, retval, drecords, args,
                   errno, live, asked>>
    /\ UNCHANGED <<bitVars, huffVars>>

\* the inputs: runs of one letter of at most MaxAgain bytes, and the inputs
\* longer than the lookahead
InitPrior ==
    InitLive /\ (Len(input) <= MaxAgain \/ Len(input) > MAX_CODED)

NextPrior ==
    \/ EncodeStartAnswered
    \/ EncodeIterationAnswered
    \/ EncodeFinish
    \/ EncodeAgain

SpecPrior == InitPrior /\ [][NextPrior]_vars

\* C38: the bytes EncodeLZSS writes are a function of the bytes of the input
\* alone: a run writes what every earlier run on the input wrote, whatever
\* slidingWindow and uncodedLookahead held when it started, also when the
\* input is shorter than MAX_CODED and fills only a part of the lookahead
OutputIsFunctionOfInput ==
    pc = "encoded" => \A k \in 1 .. Len(prev) : prev[k] = bfpOut.data

\* the same of the runs that started with the lookahead as the first run
\* found it, or that filled the whole of it
OutputIsFunctionOfBuffers ==
    (pc = "encoded" /\ Len(prev) = 1
        /\ (Len(input) >= MAX_CODED \/ uncodedLookahead[MAX_CODED - 1] = 0))
            => prev[1] = bfpOut.data

MaxRecords == 3

FileRecords ==
    {[flag |-> UNCODED, byte |-> b, offset |-> U32(0), length |-> 1] :
        b \in {65, 66}}
    \cup {[flag |-> ENCODED, byte |-> 0, offset |-> U32(o), length |-> l] :
            o \in {0, 1, WINDOW_SIZE - 1}, l \in {MAX_UNCODED + 1, MAX_CODED}}

\* files that are no encoder's output: any bytes, cut anywhere in a record
MaxCorrupt == 3
CorruptFiles == SeqsUpTo({0, 127, 255}, MaxCorrupt)

Files ==
    {Packed(RecsBits(rs)) : rs \in SeqsUpTo(FileRecords, MaxRecords)}
        \cup CorruptFiles

InitDecode ==
    /\ pc = "encoded"
    /\ endian \in {BF_LITTLE_ENDIAN, BF_BIG_ENDIAN}
    /\ input = <<>> /\ inPos = 1
    /\ slidingWindow = WinFill(0)
    /\ uncodedLookahead = [i \in 0 .. MAX_CODED - 1 |-> 0]
    /\ windowHead = 0 /\ uncodedHead = 0 /\ len = 0
    /\ matchData = [offset |-> U32(0), length |-> 0]
    /\ \E f \in Files : bfpOut = [NoFile EXCEPT !.data = f]
    /\ bfpIn = NoFile /\ nextChar = 0
    /\ decoded = <<>> /\ retval = 0 /\ records = <<>> /\ drecords = <<>>
    /\ args = [fpIn |-> "FILE", fpOut |-> "FILE"] /\ errno = 0 /\ live = 0
    /\ asked = {} /\ prev = <<>>
    /\ BitIdle /\ HuffIdle

NextDecode == DecodeStart \/ DecodeIteration

SpecDecode == InitDecode /\ [][NextDecode]_vars

\* the cyclic ranges of n cells from a and from b share a cell
Overlap(a, b, n) ==
    \E i, j \in 0 .. n - 1 :
        Wrap(a + i, WINDOW_SIZE) = Wrap(b + j, WINDOW_SIZE)

\* C28: for each back-reference (offset, length) DecodeLZSS processes, the
\* bytes written to the output and the bytes stored in the window from
\* nextChar on are the bytes of the window from offset on as they were
\* before the record, also when the two ranges overlap, and nextChar moves
\* on by length modulo WINDOW_SIZE
CopyIsStaged ==
    [][(Len(drecords') = Len(drecords) + 1
           /\ drecords'[Len(drecords')].flag = ENCODED) =>
          LET r == drecords'[Len(drecords')]
              src(i) == WinGet(slidingWindow,
                               Wrap(r.offset + i, WINDOW_SIZE))
          IN  /\ decoded' = decoded \o [i \in 1 .. r.length |-> src(i - 1)]
              /\ \A i \in 0 .. r.length - 1 :
                    WinGet(slidingWindow', Wrap(nextChar + i, WINDOW_SIZE))
                        = src(i)
              /\ nextChar' = Wrap(nextChar + r.length, WINDOW_SIZE)]_vars

\* a back-reference has been processed, after literals only, whose source
\* starts at the first literal and overlaps the cells it is copied to
CopyIsStagedCase ==
    /\ pc \in {"decode", "done"}
    /\ \E k \in 1 .. Len(drecords) :
          /\ drecords[k].flag = ENCODED /\ drecords[k].offset = 0
          /\ k > 1 /\ \A j \in 1 .. k - 1 : drecords[j].flag = UNCODED
          /\ Overlap(drecords[k].offset, k - 1, drecords[k].length)

\* C36: for every bit stream, well formed or not, every back-reference that
\* DecodeLZSS processes has its length in MAX_UNCODED + 1 .. MAX_CODED and
\* its offset in 0 .. WINDOW_SIZE - 1, so that the indexes 0 .. length - 1
\* written in uncodedLookahead are below MAX_CODED; the cells of
\* slidingWindow and of uncodedLookahead that are used are cells of the
\* arrays, and nextChar stays in 0 .. WINDOW_SIZE - 1
DecoderStaysInBounds ==
    pc \in {"decode", "done"} =>
        /\ \A k \in 1 .. Len(drecords) :
              drecords[k].flag = ENCODED =>
                  /\ drecords[k].length \in MAX_UNCODED + 1 .. MAX_CODED
                  /\ drecords[k].offset \in 0 .. WINDOW_SIZE - 1
        /\ DOMAIN uncodedLookahead = 0 .. MAX_CODED - 1
        /\ DOMAIN slidingWindow.cells \subseteq 0 .. WINDOW_SIZE - 1
        /\ nextChar \in 0 .. WINDOW_SIZE - 1

\* the file 7F FF FF has been decoded: one back-reference with every bit of
\* both fields 1, then the end of the file in the middle of a record
DecoderStaysInBoundsCase ==
    /\ pc = "done" /\ bfpOut.data = <<127, 255, 255>>
    /\ drecords = <<[flag |-> ENCODED, byte |-> 0,
                     offset |-> WINDOW_SIZE - 1, length |-> MAX_CODED]>>
    /\ nextChar = MAX_CODED

(***************************************************************************)
(* The codec on a host whose byte order DetermineEndianess does not know:  *)
(* MakeBitFile binds BitFileNotSupported, and every BitFilePutBitsNum and  *)
(* BitFileGetBitsNum call fails with -ENOTSUP.                             *)
(***************************************************************************)
InitFail ==
    /\ pc = "start"
    /\ endian = BF_UNKNOWN_ENDIAN
    /\ input \in SeqsUpTo(InBytes, MaxInput)
    /\ inPos = 1
    /\ slidingWindow = WinFill(0)
    /\ uncodedLookahead = [i \in 0 .. MAX_CODED - 1 |-> 0]
    /\ windowHead = 0 /\ uncodedHead = 0 /\ len = 0
    /\ matchData = [offset |-> U32(0), length |-> 0]
    /\ bfpOut = NoFile /\ bfpIn = NoFile /\ nextChar = 0
    /\ decoded = <<>> /\ retval = 0 /\ records = <<>> /\ drecords = <<>>
    /\ args = [fpIn |-> "FILE", fpOut |-> "FILE"] /\ errno = 0 /\ live = 0
    /\ asked = {} /\ prev = <<>>
    /\ BitIdle /\ HuffIdle

SpecFail == InitFail /\ [][Next]_vars

\* C15: when a bit stream call made by a codec function fails, the function
\* returns a negative status, not 0.  On this host every back-reference
\* written is two failed BitFilePutBitsNum calls.
FailureIsReturned ==
    (pc = "encoded" /\ endian = BF_UNKNOWN_ENDIAN /\ BackRefs(records) > 0)
        => retval < 0

\* C16: whenever EncodeLZSS or DecodeLZSS has returned after MakeBitFile
\* succeeded, the bit file it made has been released.
HandleReleasedOnReturn == pc \in {"encoded", "done"} => live = 0


(***************************************************************************)
(* The bit stream used directly: calls on a WRITE handle, BitFileClose or  *)
(* BitFileToFILE, then the file opened again for reading and the matching  *)
(* Get call for each Put call.                                             *)
(***************************************************************************)
Chars == {65, 177}
Payloads == {<<177, 90, 195>>, <<90, 129, 60>>}
Priors == {<<0, 0, 0>>, <<255, 255, 255>>}

PutBitCall ==
    /\ phase = "write" /\ Len(wops) < MaxOps
    /\ \E c \in {0, 1} :
          /\ stream' = BitFilePutBit(c, stream).s
          /\ wops' = Append(wops, [op |-> "bit", c |-> c])
    /\ UNCHANGED <<phase, rres>> /\ UNCHANGED <<lzssVars, huffVars>>

PutCharCall ==
    /\ phase = "write" /\ Len(wops) < MaxOps
    /\ \E c \in Chars :
          /\ stream' = BitFilePutChar(c, stream).s
          /\ wops' = Append(wops, [op |-> "char", c |-> c])
    /\ UNCHANGED <<phase, rres>> /\ UNCHANGED <<lzssVars, huffVars>>

PutBitsCall ==
    /\ phase = "write" /\ Len(wops) < MaxOps
    /\ \E bits \in Payloads, count \in 0 .. MaxCount :
          /\ stream' = BitFilePutBits(stream, bits, count).s
          /\ wops' = Append(wops, [op |-> "bits", bits |-> bits, count |-> count])
    /\ UNCHANGED <<phase, rres>> /\ UNCHANGED <<lzssVars, huffVars>>

CloseCall ==
    /\ phase = "write"
    /\ stream' \in {BitFileClose(stream).s, BitFileToFILE(stream).s}
    /\ phase' = "closed"
    /\ UNCHANGED <<wops, rres>> /\ UNCHANGED <<lzssVars, huffVars>>

OpenRead ==
    /\ phase = "closed"
    /\ stream' = MakeBitFile(stream.data, BF_READ, stream.endian)
    /\ phase' = "read"
    /\ UNCHANGED <<wops, rres>> /\ UNCHANGED <<lzssVars, huffVars>>

\* the write call the next read call answers
Pending == wops[Len(rres) + 1]

GetBitCall ==
    /\ phase = "read" /\ Len(rres) < Len(wops) /\ Pending.op = "bit"
    /\ \E r \in {BitFileGetBit(stream)} :
          /\ stream' = r.s
          /\ rres' = Append(rres, [rv |-> r.rv])
    /\ UNCHANGED <<phase, wops>> /\ UNCHANGED <<lzssVars, huffVars>>

GetCharCall ==
    /\ phase = "read" /\ Len(rres) < Len(wops) /\ Pending.op = "char"
    /\ \E r \in {BitFileGetChar(stream)} :
          /\ stream' = r.s
          /\ rres' = Append(rres, [rv |-> r.rv])
    /\ UNCHANGED <<phase, wops>> /\ UNCHANGED <<lzssVars, huffVars>>

GetBitsCall ==
    /\ phase = "read" /\ Len(rres) < Len(wops) /\ Pending.op = "bits"
    /\ \E prior \in Priors :
       \E r \in {BitFileGetBits(stream, prior, Pending.count)} :
          /\ stream' = r.s
          /\ rres' = Append(rres, [rv |-> r.rv, bits |-> r.bits,
                                   prior |-> prior])
    /\ UNCHANGED <<phase, wops>> /\ UNCHANGED <<lzssVars, huffVars>>

InitBits ==
    /\ LzssIdle /\ HuffIdle
    /\ stream = MakeBitFile(<<>>, BF_WRITE, BF_LITTLE_ENDIAN)
    /\ phase = "write" /\ wops = <<>> /\ rres = <<>>

NextBits ==
    \/ PutBitCall
    \/ PutCharCall
    \/ PutBitsCall
    \/ CloseCall
    \/ OpenRead
    \/ GetBitCall
    \/ GetCharCall
    \/ GetBitsCall

SpecBits == InitBits /\ [][NextBits]_vars

\* C4: after any sequence of PutBit, PutChar and PutBits calls and then
\* BitFileClose or BitFileToFILE, the file is the bits written, in call order
\* and most significant bit first, filled with zeros to a whole byte: one
\* last byte when the bit count is not a multiple of 8, no byte otherwise.
FileIsBitsWritten ==
    phase \in {"closed", "read"} => stream.data = Packed(OpsBits(wops))

\* PutChar(0xB1) then PutBit(1), the bits 1,0,1,1,0,0,0,1,1: 0xB1 0x80
FileIsBitsWrittenCase ==
    /\ phase = "closed"
    /\ wops = <<[op |-> "char", c |-> 177], [op |-> "bit", c |-> 1]>>
    /\ stream.data = <<177, 128>>

\* what the read call answering the write call w must have returned as r
Answers(w, r) ==
    CASE w.op = "bit" -> r.rv = w.c
      [] w.op = "char" -> r.rv = w.c
      [] w.op = "bits" ->
            /\ r.rv = w.count
            /\ SubSeq(BytesBits(r.bits), 1, w.count)
                  = SubSeq(BytesBits(w.bits), 1, w.count)
            /\ w.count % 8 # 0 =>
                  Rd(r.bits, w.count \div 8) % (2 ^ (8 - (w.count % 8))) = 0
            /\ \A k \in 0 .. Len(r.bits) - 1 :
                  8 * k >= w.count => Rd(r.bits, k) = Rd(r.prior, k)

\* C2: what was written with PutBits, PutBit and PutChar is what the matching
\* GetBits, GetBit and GetChar calls return after the handle was closed and
\* the file opened for reading, at every bit alignment; GetBits leaves a tail
\* in the high-order positions of its last byte, the bits below it zero.
ReadBackWritten ==
    phase = "read" => \A i \in 1 .. Len(rres) : Answers(wops[i], rres[i])

\* a PutBit, then 11 bits read back off byte alignment into a buffer of ones
ReadBackWrittenCase ==
    /\ phase = "read" /\ Len(rres) = 2 /\ Len(wops) = 2
    /\ wops[1].op = "bit" /\ wops[2].op = "bits" /\ wops[2].count = 11
    /\ rres[2].prior = <<255, 255, 255>>
    /\ rres[2].rv = 11

(***************************************************************************)
(* A READ handle on any file, and any interleaving of BitFileGetBit and    *)
(* BitFileGetChar on it.                                                   *)
(***************************************************************************)
FileBytes == {177, 90}

ScanBit ==
    /\ phase = "scan" /\ Len(rres) < MaxReads
    /\ \E r \in {BitFileGetBit(stream)} :
          /\ stream' = r.s
          /\ rres' = Append(rres, [op |-> "bit", rv |-> r.rv])
    /\ UNCHANGED <<phase, wops>> /\ UNCHANGED <<lzssVars, huffVars>>

ScanChar ==
    /\ phase = "scan" /\ Len(rres) < MaxReads
    /\ \E r \in {BitFileGetChar(stream)} :
          /\ stream' = r.s
          /\ rres' = Append(rres, [op |-> "char", rv |-> r.rv])
    /\ UNCHANGED <<phase, wops>> /\ UNCHANGED <<lzssVars, huffVars>>

InitRead ==
    /\ LzssIdle /\ HuffIdle
    /\ \E file \in SeqsUpTo(FileBytes, MaxFile) :
          stream = MakeBitFile(file, BF_READ, BF_LITTLE_ENDIAN)
    /\ phase = "scan" /\ wops = <<>> /\ rres = <<>>

NextRead ==
    \/ ScanBit
    \/ ScanChar

SpecRead == InitRead /\ [][NextRead]_vars

\* the number of bits the first k read calls returned
RECURSIVE Consumed(_, _)
Consumed(rs, k) ==
    IF k = 0 THEN 0
    ELSE Consumed(rs, k - 1)
         + (IF rs[k].rv = EOF THEN 0 ELSE IF rs[k].op = "bit" THEN 1 ELSE 8)

\* C5: under any interleaving of GetBit and GetChar the values returned are
\* the consecutive bits of the file, most significant first: each call
\* returns the bits that follow the ones returned before it, one or eight of
\* them, and EOF when the file has not that many left.
ReadsAreConsecutive ==
    phase = "scan" =>
        \A k \in 1 .. Len(rres) :
            LET n == Consumed(rres, k - 1)
                F == BytesBits(stream.data)
                r == rres[k]
            IN  IF r.op = "bit"
                THEN IF n < Len(F) THEN r.rv = F[n + 1] ELSE r.rv = EOF
                ELSE IF n + 8 <= Len(F)
                     THEN r.rv # EOF /\ Bits8(r.rv) = SubSeq(F, n + 1, n + 8)
                     ELSE r.rv = EOF

\* GetBit, GetChar across the byte boundary, then GetBit again
ReadsAreConsecutiveCase ==
    /\ phase = "scan" /\ Len(rres) >= 3
    /\ rres[1].op = "bit" /\ rres[2].op = "char" /\ rres[2].rv # EOF
    /\ rres[3].op = "bit" /\ rres[3].rv # EOF
    /\ stream.bitCount = 6

(***************************************************************************)
(* BitFilePutBitsNum and BitFileGetBitsNum: a handle bound to the little   *)
(* endian or to the big endian functions, brought to any bit alignment,    *)
(* one integer written from its host layout, the handle closed, the file   *)
(* opened on either binding and the integer read into a variable that      *)
(* holds any value.                                                        *)
(***************************************************************************)
Bindings == {BF_LITTLE_ENDIAN, BF_BIG_ENDIAN}
AlignBits == <<177, 90, 195>>
NumValues(count) ==
    {0, 1, 2 ^ (count - 1), (2 ^ count) - 1, 4660 % (2 ^ count)}
NumPriors(size) == {0, (256 ^ size) - 1}

NumAlign ==
    /\ phase = "numwrite" /\ wops = <<>>
    /\ \E k \in 1 .. 7 :
          /\ stream' = BitFilePutBits(stream, AlignBits, k).s
          /\ wops' = <<[op |-> "bits", bits |-> AlignBits, count |-> k]>>
    /\ UNCHANGED <<phase, rres>> /\ UNCHANGED <<lzssVars, huffVars>>

NumPut ==
    /\ phase = "numwrite"
    /\ \E size \in 1 .. MaxSize :
       \E count \in 1 .. 8 * size :
       \E v \in NumValues(count) :
          /\ stream' = BitFilePutBitsNum(stream,
                           HostBytes(v, size, stream.endian), count, size).s
          /\ wops' = Append(wops, [op |-> "num", v |-> v, count |-> count,
                                   size |-> size, endian |-> stream.endian])
    /\ phase' = "numput"
    /\ UNCHANGED rres /\ UNCHANGED <<lzssVars, huffVars>>

NumClose ==
    /\ phase = "numput"
    /\ stream' = BitFileClose(stream).s
    /\ phase' = "numclosed"
    /\ UNCHANGED <<wops, rres>> /\ UNCHANGED <<lzssVars, huffVars>>

NumOpen ==
    /\ phase = "numclosed"
    /\ \E e \in Bindings : stream' = MakeBitFile(stream.data, BF_READ, e)
    /\ phase' = "numread"
    /\ UNCHANGED <<wops, rres>> /\ UNCHANGED <<lzssVars, huffVars>>

NumSkip ==
    /\ phase = "numread" /\ rres = <<>> /\ wops[1].op = "bits"
    /\ \E r \in {BitFileGetBits(stream, <<0, 0, 0>>, wops[1].count)} :
          /\ stream' = r.s
          /\ rres' = <<[rv |-> r.rv, bits |-> r.bits, prior |-> <<0, 0, 0>>]>>
    /\ UNCHANGED <<phase, wops>> /\ UNCHANGED <<lzssVars, huffVars>>

NumGet ==
    /\ phase = "numread" /\ Len(rres) = Len(wops) - 1
    /\ wops[Len(wops)].op = "num" /\ Pending.op = "num"
    /\ \E prior \in NumPriors(Pending.size) :
       \E r \in {BitFileGetBitsNum(stream,
                     HostBytes(prior, Pending.size, stream.endian),
                     Pending.count, Pending.size)} :
          /\ stream' = r.s
          /\ rres' = Append(rres, [rv |-> r.rv,
                                   v |-> HostValue(r.bits, stream.endian),
                                   prior |-> prior, endian |-> stream.endian])
    /\ UNCHANGED <<phase, wops>> /\ UNCHANGED <<lzssVars, huffVars>>

InitNum ==
    /\ LzssIdle /\ HuffIdle
    /\ \E e \in Bindings : stream = MakeBitFile(<<>>, BF_WRITE, e)
    /\ phase = "numwrite" /\ wops = <<>> /\ rres = <<>>

NextNum ==
    \/ NumAlign
    \/ NumPut
    \/ NumClose
    \/ NumOpen
    \/ NumSkip
    \/ NumGet

SpecNum == InitNum /\ [][NextNum]_vars

\* the integer has been read back
NumRead == phase = "numread" /\ Len(rres) = Len(wops)

\* C3: an integer v of count bits written with PutBitsNum and read with
\* GetBitsNum on the same binding, at any bit alignment, is read as v.
NumRoundTrip ==
    (NumRead /\ rres[Len(rres)].endian = wops[Len(wops)].endian)
        => (rres[Len(rres)].rv = wops[Len(wops)].count
            /\ rres[Len(rres)].v = wops[Len(wops)].v)

\* C8: the two bindings write the same bits for a value, its least
\* significant byte first, and GetBitsNum on either binding reads the value
\* back from them.
NumBindingsAgree ==
    /\ phase \in {"numclosed", "numread"} => stream.data = Packed(OpsBits(wops))
    /\ NumRead => rres[Len(rres)].v = wops[Len(wops)].v

\* the part of the above that is about the bits written
NumBitsAgree ==
    phase \in {"numclosed", "numread"} => stream.data = Packed(OpsBits(wops))

\* the integer is read as written when the variable held zero, and when the
\* count is the whole of its bytes
NumRoundTripFromZero ==
    (NumRead /\ (rres[Len(rres)].prior = 0
                 \/ wops[Len(wops)].count = 8 * wops[Len(wops)].size))
        => rres[Len(rres)].v = wops[Len(wops)].v

\* the bits of the file the GetBitsNum call has read: those after the bits
\* that brought the handle off byte alignment
NumBitsRead ==
    LET skip == IF wops[1].op = "bits" THEN wops[1].count ELSE 0
    IN  SubSeq(BytesBits(stream.data), skip + 1,
               skip + wops[Len(wops)].count)

\* C35: after a GetBitsNum of count bits that succeeded, the integer is the
\* unsigned value of the count bits read, whatever it held before the call:
\* no bit of what it held is left in it
GetNumIsBitsRead ==
    (NumRead /\ rres[Len(rres)].rv = wops[Len(wops)].count) =>
        /\ rres[Len(rres)].v < 2 ^ wops[Len(wops)].count
        /\ NumBits(rres[Len(rres)].v, wops[Len(wops)].count) = NumBitsRead

\* the same of an integer that held zero before the call
GetNumIsBitsReadFromZero ==
    (NumRead /\ rres[Len(rres)].rv = wops[Len(wops)].count
             /\ rres[Len(rres)].prior = 0) =>
        /\ rres[Len(rres)].v < 2 ^ wops[Len(wops)].count
        /\ NumBits(rres[Len(rres)].v, wops[Len(wops)].count) = NumBitsRead

\* 0x1234 written at count 16 is the bytes 0x34 0x12 on both bindings
NumBitsAgreeCase ==
    /\ phase = "numclosed"
    /\ wops = <<[op |-> "num", v |-> 4660, count |-> 16, size |-> 2,
                 endian |-> BF_BIG_ENDIAN]>>
    /\ stream.data = <<52, 18>>

(***************************************************************************)
(* BitFilePutBitsNum and BitFileGetBitsNum called with a count above the   *)
(* 8 * size bits of the integer.  Memory is the size bytes of the integer  *)
(* followed by the MaxBeyond bytes that lie after it.  The little endian   *)
(* functions discard size, so they go on past the integer: an access      *)
(* outside the object is undefined, and is either a fault or an access to  *)
(* the bytes that lie there.                                               *)
(***************************************************************************)
MaxBeyond == 1
Beyond == {[i \in 1 .. MaxBeyond |-> b] : b \in {0, 165}}
OverCounts(size) == {8 * size + 1, 8 * size + 8 * MaxBeyond}

\* the handle is brought off byte alignment first, or not
OverAlign ==
    /\ phase = "over" /\ wops = <<>> /\ rres = <<>>
    /\ \E k \in 1 .. 7 :
          IF stream.mode = BF_READ
          THEN /\ \E r \in {BitFileGetBits(stream, <<0>>, k)} :
                     /\ r.rv # EOF
                     /\ stream' = r.s
                     /\ rres' = <<[op |-> "bits", rv |-> r.rv]>>
               /\ UNCHANGED wops
          ELSE /\ stream' = BitFilePutBits(stream, AlignBits, k).s
               /\ wops' = <<[op |-> "bits", rv |-> k]>>
               /\ UNCHANGED rres
    /\ UNCHANGED phase /\ UNCHANGED <<lzssVars, huffVars>>

OverGet ==
    /\ phase = "over" /\ stream.mode = BF_READ
    /\ \E size \in 1 .. MaxSize :
       \E count \in OverCounts(size) :
       \E prior \in NumPriors(size) :
       \E after \in Beyond :
       \E mem \in {HostBytes(prior, size, stream.endian) \o after} :
       \E r \in {BitFileGetBitsNum(stream, mem, count, size)} :
          \/ /\ stream' = r.s
             /\ rres' = Append(rres, [op |-> "num", rv |-> r.rv,
                                      was |-> stream, mem |-> mem,
                                      bits |-> r.bits])
             /\ phase' = "overdone"
          \/ /\ stream.endian = BF_LITTLE_ENDIAN
             /\ phase' = "fault"
             /\ UNCHANGED <<stream, rres>>
    /\ UNCHANGED wops /\ UNCHANGED <<lzssVars, huffVars>>

OverPut ==
    /\ phase = "over" /\ stream.mode = BF_WRITE
    /\ \E size \in 1 .. MaxSize :
       \E count \in OverCounts(size) :
       \E v \in NumPriors(size) :
       \E after \in Beyond :
       \E mem \in {HostBytes(v, size, stream.endian) \o after} :
       \E r \in {BitFilePutBitsNum(stream, mem, count, size)} :
          \/ /\ stream' = r.s
             /\ wops' = Append(wops, [op |-> "num", rv |-> r.rv,
                                      was |-> stream, mem |-> mem,
                                      bits |-> mem])
             /\ phase' = "overdone"
          \/ /\ stream.endian = BF_LITTLE_ENDIAN
             /\ phase' = "fault"
             /\ UNCHANGED <<stream, wops>>
    /\ UNCHANGED rres /\ UNCHANGED <<lzssVars, huffVars>>

InitOver ==
    /\ LzssIdle /\ HuffIdle
    /\ \E e \in Bindings :
          \/ stream = MakeBitFile(<<>>, BF_WRITE, e)
          \/ \E file \in SeqsUpTo(FileBytes, MaxSize + MaxBeyond + 1) :
                stream = MakeBitFile(file, BF_READ, e)
    /\ phase = "over" /\ wops = <<>> /\ rres = <<>>

NextOver ==
    \/ OverAlign
    \/ OverGet
    \/ OverPut

SpecOver == InitOver /\ [][NextOver]_vars

\* the call made with a count above 8 * size
OverCall == IF stream.mode = BF_READ THEN rres[Len(rres)] ELSE wops[Len(wops)]

\* C34: on the little endian and on the big endian binding, GetBitsNum and
\* PutBitsNum called with count > 8 * size return EOF, transfer no bit, read
\* or write no byte of the file, and touch no memory outside the size bytes
\* of the integer
OverCountFails ==
    /\ phase # "fault"
    /\ phase = "overdone" =>
          /\ OverCall.rv = EOF
          /\ stream = OverCall.was
          /\ OverCall.bits = OverCall.mem

\* the same of the big endian binding alone
OverCountFailsBE ==
    (phase \in {"overdone", "fault"} /\ stream.endian = BF_BIG_ENDIAN) =>
        /\ phase = "overdone"
        /\ OverCall.rv = EOF
        /\ stream = OverCall.was
        /\ OverCall.bits = OverCall.mem

(***************************************************************************)
(* Any sequence of calls on one handle: the Put, ByteAlign and FlushOutput *)
(* functions on a WRITE or APPEND handle, the Get functions and ByteAlign  *)
(* on a READ handle.  wops and rres hold the calls made.                   *)
(***************************************************************************)
MaxCalls == 3
Counts == {1, 7, 8, 9}

OnWrite ==
    /\ phase = "calls" /\ stream.mode \in {BF_WRITE, BF_APPEND}
    /\ Len(wops) < MaxCalls

OnRead ==
    /\ phase = "calls" /\ stream.mode = BF_READ
    /\ Len(rres) < MaxCalls

AnyPutBit ==
    /\ OnWrite
    /\ \E c \in {0, 1} :
          /\ stream' = BitFilePutBit(c, stream).s
          /\ wops' = Append(wops, [op |-> "bit", count |-> 1])
    /\ UNCHANGED <<phase, rres>> /\ UNCHANGED <<lzssVars, huffVars>>

AnyPutChar ==
    /\ OnWrite
    /\ \E c \in Chars :
          /\ stream' = BitFilePutChar(c, stream).s
          /\ wops' = Append(wops, [op |-> "char", count |-> 8])
    /\ UNCHANGED <<phase, rres>> /\ UNCHANGED <<lzssVars, huffVars>>

AnyPutBits ==
    /\ OnWrite
    /\ \E bits \in Payloads, count \in Counts :
          /\ stream' = BitFilePutBits(stream, bits, count).s
          /\ wops' = Append(wops, [op |-> "bits", count |-> count])
    /\ UNCHANGED <<phase, rres>> /\ UNCHANGED <<lzssVars, huffVars>>

AnyFlushOutput ==
    /\ OnWrite
    /\ \E onesFill \in {0, 1} :
          \E r \in {BitFileFlushOutput(stream, onesFill)} :
             /\ stream' = r.s
             /\ wops' = Append(wops, [op |-> "flush", count |-> 0,
                                      fill |-> onesFill, rv |-> r.rv])
    /\ UNCHANGED <<phase, rres>> /\ UNCHANGED <<lzssVars, huffVars>>

AnyByteAlign ==
    /\ phase = "calls"
    /\ \E r \in {BitFileByteAlign(stream)} :
          /\ stream' = r.s
          /\ IF stream.mode = BF_READ
             THEN /\ Len(rres) < MaxCalls
                  /\ rres' = Append(rres, [op |-> "align", count |-> 0,
                                           rv |-> r.rv])
                  /\ UNCHANGED wops
             ELSE /\ Len(wops) < MaxCalls
                  /\ wops' = Append(wops, [op |-> "align", count |-> 0,
                                           rv |-> r.rv])
                  /\ UNCHANGED rres
    /\ UNCHANGED phase /\ UNCHANGED <<lzssVars, huffVars>>

AnyGetBit ==
    /\ OnRead
    /\ stream' = BitFileGetBit(stream).s
    /\ rres' = Append(rres, [op |-> "bit", count |-> 1])
    /\ UNCHANGED <<phase, wops>> /\ UNCHANGED <<lzssVars, huffVars>>

AnyGetChar ==
    /\ OnRead
    /\ stream' = BitFileGetChar(stream).s
    /\ rres' = Append(rres, [op |-> "char", count |-> 8])
    /\ UNCHANGED <<phase, wops>> /\ UNCHANGED <<lzssVars, huffVars>>

AnyGetBits ==
    /\ OnRead
    /\ \E prior \in Priors, count \in Counts :
          /\ stream' = BitFileGetBits(stream, prior, count).s
          /\ rres' = Append(rres, [op |-> "bits", count |-> count])
    /\ UNCHANGED <<phase, wops>> /\ UNCHANGED <<lzssVars, huffVars>>

InitCount ==
    /\ LzssIdle /\ HuffIdle
    /\ \E file \in SeqsUpTo(FileBytes, MaxFile) :
          stream \in {MakeBitFile(file, BF_READ, BF_LITTLE_ENDIAN),
                      MakeBitFile(file, BF_APPEND, BF_LITTLE_ENDIAN),
                      MakeBitFile(<<>>, BF_WRITE, BF_LITTLE_ENDIAN)}
    /\ phase = "calls" /\ wops = <<>> /\ rres = <<>>

NextCount ==
    \/ AnyPutBit
    \/ AnyPutChar
    \/ AnyPutBits
    \/ AnyFlushOutput
    \/ AnyByteAlign
    \/ AnyGetBit
    \/ AnyGetChar
    \/ AnyGetBits

SpecCount == InitCount /\ [][NextCount]_vars

\* C30: between any two calls on a handle bitCount is one of 0 .. 7: a
\* write handle holds no whole byte that was not written, and a read
\* handle holds at most seven bits not yet returned
BitCountBelowEight == stream.bitCount \in 0 .. 7

\* a BitFilePutBit call that found seven bits in the buffer has written the
\* byte, and a BitFileGetBit call on an empty buffer has left seven bits
BitCountBelowEightCase ==
    \/ /\ stream.mode = BF_WRITE
       /\ wops = <<[op |-> "bits", count |-> 7], [op |-> "bit", count |-> 1]>>
       /\ stream.bitCount = 0 /\ Len(stream.data) = 1
    \/ /\ stream.mode = BF_READ
       /\ rres = <<[op |-> "bit", count |-> 1]>>
       /\ stream.bitCount = 7

\* the step is the call of op on the handle: the call is the last one recorded
Called(op) ==
    \/ /\ Len(wops') = Len(wops) + 1 /\ wops'[Len(wops')].op = op
    \/ /\ Len(rres') = Len(rres) + 1 /\ rres'[Len(rres')].op = op

\* the k pending bits of a write handle, the low k bits of its buffer, left
\* justified in a byte with fill in each of the 8 - k spare bits
LeftJustified(s, fill) ==
    (s.bitBuffer % (2 ^ s.bitCount)) * (2 ^ (8 - s.bitCount))
        + fill * ((2 ^ (8 - s.bitCount)) - 1)

\* what a read at the next byte of the file returns
NextFileByte(s) == IF s.pos <= Len(s.data) THEN s.data[s.pos] ELSE EOF
NextFileBit(s) == IF s.pos <= Len(s.data) THEN BitAt(s.data[s.pos], 7) ELSE EOF

\* C31: BitFileByteAlign on a READ handle drops the bits not yet returned,
\* so that the next BitFileGetBit or BitFileGetChar returns data from the
\* first bit of the next byte of the file; on a WRITE or APPEND handle with
\* k > 0 pending bits it writes exactly one byte, the pending bits left
\* justified and filled with zeros, and with k = 0 it writes nothing; in
\* every mode bitBuffer and bitCount are 0 afterwards
ByteAlignAligns ==
    [][Called("align") =>
          /\ stream'.bitBuffer = 0 /\ stream'.bitCount = 0
          /\ stream.mode = BF_READ =>
                /\ stream'.data = stream.data /\ stream'.pos = stream.pos
                /\ BitFileGetBit(stream').rv = NextFileBit(stream)
                /\ BitFileGetChar(stream').rv = NextFileByte(stream)
          /\ stream.mode \in {BF_WRITE, BF_APPEND} =>
                stream'.data =
                    IF stream.bitCount > 0
                    THEN Append(stream.data, LeftJustified(stream, 0))
                    ELSE stream.data]_vars

\* a READ handle aligned after one bit of 0xB1 0x5A, now at the second byte,
\* and a WRITE handle aligned with the seven bits 1011000 pending
ByteAlignAlignsCase ==
    \/ /\ stream.mode = BF_READ /\ stream.data = <<177, 90>>
       /\ Len(rres) = 2 /\ rres[1].op = "bit" /\ rres[2].op = "align"
       /\ stream.pos = 2 /\ stream.bitCount = 0
    \/ /\ stream.mode = BF_WRITE
       /\ Len(wops) = 2 /\ wops[1] = [op |-> "bits", count |-> 7]
       /\ wops[2].op = "align"
       /\ stream.data = <<176>> /\ stream.bitCount = 0

\* C32: BitFileByteAlign on a WRITE or APPEND handle returns the byte aligned
\* contents of the bit buffer, the value of the byte it writes (the pending
\* bits left justified, the spare bits 0), and on a READ handle it returns
\* the contents of the bit buffer as they are
ByteAlignReturnsAligned ==
    [][Called("align") =>
          /\ stream.mode = BF_READ =>
                rres'[Len(rres')].rv = stream.bitBuffer
          /\ (stream.mode \in {BF_WRITE, BF_APPEND} /\ stream.bitCount > 0) =>
                /\ wops'[Len(wops')].rv = LeftJustified(stream, 0)
                /\ wops'[Len(wops')].rv = stream'.data[Len(stream'.data)]]_vars

\* C33: BitFileFlushOutput on a write handle with k pending bits, k in
\* 1 .. 7, writes exactly one byte, the pending bits in its high k bits and
\* its low 8 - k bits all 1 when onesFill is not zero and all 0 when it is,
\* returns that byte, and leaves bitBuffer and bitCount 0; with k = 0 it
\* writes nothing and returns -1
FlushOutputFills ==
    [][Called("flush") =>
          LET call == wops'[Len(wops')]
          IN  /\ stream'.bitBuffer = 0 /\ stream'.bitCount = 0
              /\ stream.bitCount \in 1 .. 7 =>
                    /\ stream'.data =
                           Append(stream.data,
                                  LeftJustified(stream,
                                                IF call.fill # 0 THEN 1 ELSE 0))
                    /\ call.rv = stream'.data[Len(stream'.data)]
              /\ stream.bitCount = 0 =>
                    /\ stream'.data = stream.data
                    /\ call.rv = 0 - 1]_vars

\* the seven bits 1011000 flushed with ones: the byte 0xB1 is written and
\* returned; and a flush of an empty buffer
FlushOutputFillsCase ==
    /\ stream.mode = BF_WRITE
    /\ Len(wops) = 3 /\ wops[1] = [op |-> "bits", count |-> 7]
    /\ wops[2] = [op |-> "flush", count |-> 0, fill |-> 1, rv |-> 177]
    /\ wops[3] = [op |-> "flush", count |-> 0, fill |-> 1, rv |-> 0 - 1]
    /\ stream.data = <<177>> /\ stream.bitCount = 0

(***************************************************************************)
(* The Huffman builder (src/unnamed/part_000).  huffmanTree counts the     *)
(* characters of its array, queues a leaf per entry of the count, merges   *)
(* the two nodes at the head of the queue until one cell is left, and      *)
(* prints the code words of the tree below its local n.                    *)
(***************************************************************************)
MaxText == 5
HuffChars == {65, 66, 67}
Abracadabra == <<65, 66, 82, 65, 67, 65, 68, 65, 66, 82, 65>>
Texts == SeqsUpTo(HuffChars, MaxText) \cup {Abracadabra}

\* what the uninitialised n of huffmanTree can address: a character of
\* memory that reads as a Node without sons
Garbage == {0, 65}

\* contains: the first index below size where arr holds ch, or -1
contains(ch, arr, size) ==
    IF \E i \in 0 .. size - 1 : arr[i + 1] = ch
    THEN CHOOSE i \in 0 .. size - 1 :
             arr[i + 1] = ch /\ \A j \in 0 .. i - 1 : arr[j + 1] # ch
    ELSE 0 - 1

\* one iteration of the loop of count, on the globals cs
CountStep(cs, c) ==
    Only({IF pos > 0
          THEN [cs EXCEPT !.reps[pos + 1] = @ + 1]
          ELSE [reps |-> Append(cs.reps, 0 + 1),
                chars |-> Append(cs.chars, c),
                uniq |-> cs.uniq + 1]
          : pos \in {contains(c, cs.chars, cs.uniq)}})

RECURSIVE CountFrom(_, _, _, _)
CountFrom(cs, arr, i, size) ==
    IF i < size
    THEN Only({CountFrom(nx, arr, i + 1, size)
               : nx \in {CountStep(cs, arr[i + 1])}})
    ELSE cs

count(cs, arr, size) == CountFrom(cs, arr, 0, size)

\* createQueue: one cell, its n NULL and its next NULL
createQueue == <<0>>

\* createNode, allocated at the next address: both sons NULL, value and ch
\* are what huffmanTree assigns next
createNode(hp, value, ch, lson, rson) ==
    Append(hp, [value |-> value, ch |-> ch, lson |-> lson, rson |-> rson])

\* a push that never walks the list
PushFirst(h, hp, a, k) == k

\* the loop of push: the cell q stops at, counted from head = 1
RECURSIVE PushAfter(_, _, _, _)
PushAfter(h, hp, a, k) ==
    IF k < Len(h) /\ ~(hp[a].value <= hp[h[k + 1]].value)
    THEN PushAfter(h, hp, a, k + 1)
    ELSE k

\* the four assignments that link q_next in: when q is head and the node
\* is smaller, head becomes q_next, and q_next->next is then overwritten
\* with q->next, so the list from head goes on after q
PushLink(c, hp, a, k) ==
    IF k = 1 /\ hp[a].value < hp[c[1]].value
    THEN <<a>> \o Tail(c)
    ELSE SubSeq(c, 1, k) \o <<a>> \o SubSeq(c, k + 1, Len(c))

push(h, hp, a) ==
    Only({IF c[1] = 0
          THEN [c EXCEPT ![1] = a]
          ELSE Only({PushLink(c, hp, a, k) : k \in {PushAfter(c, hp, a, 1)}})
          : c \in {IF h = <<>> THEN createQueue ELSE h}})

isEmpty(h) == h = <<>>
isAlone(h) == Len(h) = 1
peek(h) == h[1]
\* pop: the node of the head cell, and the queue from the next cell on
pop(h) == [n |-> h[1], head |-> Tail(h)]

\* the array str of huffmanTree: the cells written so far, 0 elsewhere
StrInit == [i \in {0} |-> EOF]
StrGet(s, i) == IF i \in DOMAIN s THEN s[i] ELSE 0
StrSet(s, i, c) == [j \in DOMAIN s \cup {i} |-> IF j = i THEN c ELSE s[j]]

\* what printf prints for %s: the characters before the first NUL
RECURSIVE CString(_, _)
CString(s, i) ==
    IF StrGet(s, i) = 0 THEN <<>>
    ELSE <<StrGet(s, i)>> \o CString(s, i + 1)

\* a descent that writes '0' on either side
DescendZero(st, c) ==
    [st EXCEPT !.str = StrSet(st.str, st.end, 48), !.end = st.end + 1]

\* printTree on the state st of str, end, the lines printed and the
\* entries noted
Descend(st, c) ==
    [st EXCEPT !.str = StrSet(st.str, st.end, c), !.end = st.end + 1]

PrintLeaf(st, nd) ==
    Only({[st EXCEPT !.str = s,
                     !.out = Append(st.out, [code |-> CString(s, 0),
                                             ch |-> nd.ch,
                                             bits |-> st.end])]
          : s \in {StrSet(st.str, st.end, 0)}})

Stay(st) == st

Ascend(st) == [st EXCEPT !.end = @ - 1]

\* the entry to printTree, noted in the history
Enter(st, a) == [st EXCEPT !.seen = Append(@, [node |-> a, end |-> st.end])]

RECURSIVE printTree(_, _, _)
TreeSon(hp, a, st, c) ==
    IF a # 0
    THEN Only({printTree(hp, a, d) : d \in {Descend(st, c)}})
    ELSE st

TreeLeaf(st, nd) ==
    IF nd.lson = 0 /\ nd.rson = 0 THEN PrintLeaf(st, nd) ELSE st

printTree(hp, a, st) ==
    Only({Only({Only({Only({Ascend(f) : f \in {TreeLeaf(r, nd)}})
                      : r \in {TreeSon(hp, nd.rson, l, 49)}})
                : l \in {TreeSon(hp, nd.lson, e, 48)}})
          : nd \in {hp[a]}, e \in {Enter(st, a)}})

\* huffmanTree up to its first loop: count, then head = createQueue()
HuffmanTreeCall ==
    /\ hpc = "off"
    /\ \E cs \in {count([reps |-> reps, chars |-> chars, uniq |-> uniq],
                        text, Len(text))} :
          /\ reps' = cs.reps /\ chars' = cs.chars /\ uniq' = cs.uniq
          /\ hpc' = IF 0 < cs.uniq THEN "leaves" ELSE "merge"
    /\ head' = createQueue
    /\ UNCHANGED <<text, heap, node, end, table, popped, entered>>
    /\ UNCHANGED <<lzssVars, bitVars>>

\* one iteration of the first loop: i is the number of nodes created
PushLeaf ==
    /\ hpc = "leaves"
    /\ \E i \in {Len(heap)} :
          /\ i < uniq
          /\ \E hp \in {createNode(heap, reps[i + 1], chars[i + 1], 0, 0)} :
                /\ heap' = hp
                /\ node' = Len(hp)
                /\ head' = push(head, hp, Len(hp))
          /\ hpc' = IF i + 1 < uniq THEN "leaves" ELSE "merge"
    /\ UNCHANGED <<text, reps, chars, uniq, end, table, popped, entered>>
    /\ UNCHANGED <<lzssVars, bitVars>>

\* one iteration of the second loop: two pops, a new node, a push
MergeStep ==
    /\ hpc = "merge"
    /\ ~isAlone(head)
    /\ \E p1 \in {pop(head)} :
          IF p1.n = 0
          THEN /\ head' = p1.head
               /\ popped' = Append(popped, p1.n)
               /\ hpc' = "print"
               /\ UNCHANGED <<heap, node>>
          ELSE \E p2 \in {pop(p1.head)} :
                  IF p2.n = 0
                  THEN /\ head' = p2.head
                       /\ popped' = popped \o <<p1.n, p2.n>>
                       /\ hpc' = "print"
                       /\ UNCHANGED <<heap, node>>
                  ELSE \E hp \in {createNode(heap,
                                      heap[p1.n].value + heap[p2.n].value,
                                      UNINIT, p1.n, p2.n)} :
                          /\ heap' = hp
                          /\ node' = Len(hp)
                          /\ head' = push(p2.head, hp, Len(hp))
                          /\ popped' = popped \o <<p1.n, p2.n>>
                          /\ hpc' = "merge"
    /\ UNCHANGED <<text, reps, chars, uniq, end, table, entered>>
    /\ UNCHANGED <<lzssVars, bitVars>>

\* the loop is left
MergeDone ==
    /\ hpc = "merge"
    /\ isAlone(head)
    /\ hpc' = "print"
    /\ UNCHANGED <<text, reps, chars, uniq, head, heap, node, end, table,
                   popped, entered>>
    /\ UNCHANGED <<lzssVars, bitVars>>

\* printTree(n, str) and the return, n being a node
PrintCall ==
    /\ hpc = "print"
    /\ node # UNINIT
    /\ \E st \in {printTree(heap, node,
                            [str |-> StrInit, end |-> end, out |-> table,
                             seen |-> entered])} :
          /\ end' = st.end
          /\ table' = st.out
          /\ entered' = st.seen
    /\ hpc' = "done"
    /\ UNCHANGED <<text, reps, chars, uniq, head, heap, node, popped>>
    /\ UNCHANGED <<lzssVars, bitVars>>

\* printTree(n, str), n never assigned: reading n->lson faults, or the
\* memory n addresses reads as a Node without sons and is printed
PrintUninit ==
    /\ hpc = "print"
    /\ node = UNINIT
    /\ entered' = Append(entered, [node |-> UNINIT, end |-> end])
    /\ \/ /\ hpc' = "crash"
          /\ UNCHANGED <<end, table>>
       \/ \E g \in Garbage :
             /\ table' = Append(table, [code |-> <<>>, ch |-> g,
                                        bits |-> end])
             /\ end' = end - 1
             /\ hpc' = "done"
    /\ UNCHANGED <<text, reps, chars, uniq, head, heap, node, popped>>
    /\ UNCHANGED <<lzssVars, bitVars>>

InitHuff ==
    /\ LzssIdle /\ BitIdle
    /\ hpc = "off"
    /\ text \in Texts
    /\ HuffStart

NextHuff ==
    \/ HuffmanTreeCall
    \/ PushLeaf
    \/ MergeStep
    \/ MergeDone
    \/ PrintCall
    \/ PrintUninit

SpecHuff == InitHuff /\ [][NextHuff]_vars


\* a is a prefix of b, or equal to it
IsPrefix(a, b) == Len(a) <= Len(b) /\ SubSeq(b, 1, Len(a)) = a

\* C17: the code words printTree has printed form a prefix set: none of
\* them is a prefix of, or equal to, the code word printed for another leaf
CodewordsArePrefixFree ==
    \A i, j \in 1 .. Len(table) :
        i # j => ~IsPrefix(table[i].code, table[j].code)

\* a tree of at least three leaves, at different depths, has been printed
CodewordsArePrefixFreeCase ==
    /\ hpc = "done"
    /\ Len(table) >= 3
    /\ \E i, j \in 1 .. Len(table) : table[i].bits < table[j].bits

\* the distinct characters of a text, and how often each occurs
Symbols(t) == {t[i] : i \in 1 .. Len(t)}
Occurrences(t, c) == Cardinality({i \in 1 .. Len(t) : t[i] = c})

\* the weights of a text, in the order its characters first occur
RECURSIVE Weights(_, _)
Weights(t, i) ==
    IF i > Len(t) THEN <<>>
    ELSE (IF \E j \in 1 .. i - 1 : t[j] = t[i]
          THEN <<>>
          ELSE <<Occurrences(t, t[i])>>) \o Weights(t, i + 1)

\* the least weight of a sequence, taken out of it
RemoveAt(s, i) == SubSeq(s, 1, i - 1) \o SubSeq(s, i + 1, Len(s))
TakeMin(s) ==
    Only({[w |-> s[i], rest |-> RemoveAt(s, i)]
          : i \in {CHOOSE i \in 1 .. Len(s) :
                       \A k \in 1 .. Len(s) : s[i] <= s[k]}})

\* the least sum of weight times length a prefix code can reach: the sum
\* of the weights of the inner nodes of a tree that always joins the two
\* least weights
RECURSIVE OptimalBits(_)
OptimalBits(ws) ==
    IF Len(ws) <= 1 THEN 0
    ELSE Only({Only({(a.w + b.w) + OptimalBits(Append(b.rest, a.w + b.w))
                     : b \in {TakeMin(a.rest)}})
               : a \in {TakeMin(ws)}})

\* a text of one distinct character needs one bit for each occurrence
OptimalTotal(t) ==
    IF Cardinality(Symbols(t)) = 1 THEN Len(t)
    ELSE OptimalBits(Weights(t, 1))

\* the lines printed for a character, and the bits the printed code spends
\* on the text
LinesFor(c) == {i \in 1 .. Len(table) : table[i].ch = c}

RECURSIVE BitsFrom(_)
BitsFrom(i) ==
    IF i > Len(table) THEN 0
    ELSE Occurrences(text, table[i].ch) * table[i].bits + BitsFrom(i + 1)

TotalBits == BitsFrom(1)

\* C18: huffmanTree prints exactly one code word for each distinct
\* character of the text, and the sum over the characters of occurrences
\* times code word length is the least a prefix code can reach; for
\* ABRACADABRA the sum is 23 bits and no code word is shorter than that of A
HuffmanIsOptimal ==
    hpc = "done" =>
        /\ \A c \in Symbols(text) : Cardinality(LinesFor(c)) = 1
        /\ TotalBits = OptimalTotal(text)
        /\ text = Abracadabra =>
              /\ TotalBits = 23
              /\ \A i \in LinesFor(65), j \in 1 .. Len(table) :
                     table[i].bits <= table[j].bits

\* C19: for a text that is not empty and holds one distinct character,
\* huffmanTree prints for that character a code word of at least one bit
SingleSymbolHasCode ==
    hpc = "done" /\ Cardinality(Symbols(text)) = 1 =>
        \A c \in Symbols(text) :
            /\ LinesFor(c) # {}
            /\ \A i \in LinesFor(c) :
                   table[i].bits >= 1 /\ Len(table[i].code) >= 1

\* C20: for the empty text huffmanTree creates no node, printTree visits
\* no node (no fault, end as it was), and nothing is printed
EmptyTextBuildsNothing ==
    text = <<>> =>
        /\ heap = <<>>
        /\ hpc # "crash" /\ end = 0
        /\ table = <<>>

\* the entries count holds for a character, and the leaves created for it
EntriesFor(c) == {i \in 1 .. uniq : chars[i] = c}
LeavesFor(c) ==
    {a \in 1 .. Len(heap) :
        heap[a].lson = 0 /\ heap[a].rson = 0 /\ heap[a].ch = c}

\* C21: after count, each distinct character of the text has exactly one
\* entry, whose count is the number of its occurrences, no entry has count
\* 0, and once the first loop is over one leaf exists for each distinct
\* character (for ABRACADABRA: A 5, B 2, R 2, C 1, D 1)
CountIsExact ==
    hpc # "off" =>
        /\ uniq = Cardinality(Symbols(text))
        /\ \A c \in Symbols(text) :
               /\ Cardinality(EntriesFor(c)) = 1
               /\ \A i \in EntriesFor(c) : reps[i] = Occurrences(text, c)
        /\ \A i \in 1 .. uniq : reps[i] # 0
        /\ hpc # "leaves" =>
               \A c \in Symbols(text) : Cardinality(LeavesFor(c)) = 1

(***************************************************************************)
(* The queue of the Huffman builder on its own: any sequence of push and   *)
(* pop, on nodes of any value, from a head that is NULL or a fresh cell.   *)
(***************************************************************************)
MaxValue == 3
MaxNodes == 4

\* a caller creates a node, gives it a value and pushes it
QueuePush ==
    /\ Len(heap) < MaxNodes
    /\ \E v \in 1 .. MaxValue :
          \E hp \in {createNode(heap, v, UNINIT, 0, 0)} :
             /\ heap' = hp
             /\ node' = Len(hp)
             /\ head' = push(head, hp, Len(hp))
    /\ UNCHANGED <<hpc, text, reps, chars, uniq, end, table, popped,
                   entered>>
    /\ UNCHANGED <<lzssVars, bitVars>>

\* a caller pops, the queue not being empty
QueuePop ==
    /\ ~isEmpty(head)
    /\ \E p \in {pop(head)} :
          /\ head' = p.head
          /\ popped' = Append(popped, p.n)
    /\ UNCHANGED <<hpc, text, reps, chars, uniq, heap, node, end, table,
                   entered>>
    /\ UNCHANGED <<lzssVars, bitVars>>

InitQueue ==
    /\ LzssIdle /\ BitIdle
    /\ hpc = "off" /\ text = <<>>
    /\ reps = <<>> /\ chars = <<>> /\ uniq = 0
    /\ head \in {<<>>, createQueue}
    /\ heap = <<>> /\ node = UNINIT /\ end = 0 /\ table = <<>>
    /\ popped = <<>> /\ entered = <<>>

NextQueue == QueuePush \/ QueuePop

SpecQueue == InitQueue /\ [][NextQueue]_vars

\* the nodes in the cells of the queue, those pop has returned, and those
\* pushed and not yet popped
Queued == {head[k] : k \in 1 .. Len(head)} \ {0}
Popped == {popped[k] : k \in 1 .. Len(popped)} \ {0}
Owed == (1 .. Len(heap)) \ Popped

\* C22: after any sequence of push and pop the nodes from the head of the
\* queue on are in non-decreasing order of value, so the head cell holds
\* the least value of the queue
QueueIsSorted ==
    \A k \in 1 .. Len(head) - 1 :
        head[k] # 0 /\ head[k + 1] # 0 =>
            heap[head[k]].value <= heap[head[k + 1]].value

\* a queue of three cells and two different values, after a pop
QueueIsSortedCase ==
    /\ Len(head) >= 3
    /\ popped # <<>>
    /\ heap[head[1]].value < heap[head[Len(head)]].value

\* C23: after any sequence of push and pop the queue holds exactly the
\* nodes pushed and not yet popped, each once, so that pop returns a node
\* of the least value among them
QueueKeepsNodes ==
    /\ Queued = Owed
    /\ Cardinality(Queued) = Len(SelectSeq(head, LAMBDA a : a # 0))
    /\ \A a \in Owed : heap[head[1]].value <= heap[a].value

\* the leaves of the tree below a node
RECURSIVE LeavesUnder(_, _)
LeavesUnder(hp, a) ==
    IF a = 0 THEN {}
    ELSE IF hp[a].lson = 0 /\ hp[a].rson = 0 THEN {a}
    ELSE LeavesUnder(hp, hp[a].lson) \cup LeavesUnder(hp, hp[a].rson)

\* C24: with at least two leaves, each iteration of the second loop pops
\* the two nodes at the head, n1 then n2, pushes one node of value
\* n1.value + n2.value with sons n1 and n2, and leaves the queue one cell
\* shorter; the loop ends with one cell, whose node is the n huffmanTree
\* returns, has the length of the text as value and has the leaves created
\* for the text, and no other, below it
MergeBuildsTree ==
    [][hpc = "merge" /\ uniq >= 2 =>
          IF hpc' = "merge"
          THEN /\ Len(head') = Len(head) - 1
               /\ popped' = popped \o <<head[1], head[2]>>
               /\ heap' = Append(heap, heap'[node'])
               /\ node' = Len(heap')
               /\ heap'[node'].lson = head[1]
               /\ heap'[node'].rson = head[2]
               /\ heap'[node'].value = heap[head[1]].value
                                          + heap[head[2]].value
               /\ node' \in {head'[k] : k \in 1 .. Len(head')}
          ELSE /\ head = <<node>>
               /\ heap[node].value = Len(text)
               /\ LeavesUnder(heap, node) = 1 .. uniq]_vars

\* the lines a tree asks for: for each leaf, left to right, the path from
\* the root with 48 ('0') for a left edge and 49 ('1') for a right edge
RECURSIVE PathLines(_, _, _)
PathLines(hp, a, path) ==
    IF a = 0 THEN <<>>
    ELSE IF hp[a].lson = 0 /\ hp[a].rson = 0
         THEN <<[code |-> path, ch |-> hp[a].ch, bits |-> Len(path)]>>
         ELSE PathLines(hp, hp[a].lson, Append(path, 48))
                  \o PathLines(hp, hp[a].rson, Append(path, 49))

\* the nodes of a tree with their depths, in depth-first order
RECURSIVE Depths(_, _, _)
Depths(hp, a, d) ==
    IF a = 0 THEN <<>>
    ELSE <<[node |-> a, end |-> d]>>
             \o Depths(hp, hp[a].lson, d + 1)
             \o Depths(hp, hp[a].rson, d + 1)

\* C25: for the tree huffmanTree passes to printTree, the code printed for
\* each leaf is the path from the root to the leaf, '0' for a left edge and
\* '1' for a right edge, the number of bits printed is the depth of the
\* leaf, and at the entry to each node end is the depth of that node
CodesArePaths ==
    hpc = "done" /\ node # UNINIT =>
        /\ table = PathLines(heap, node, <<>>)
        /\ entered = Depths(heap, node, 0)

\* a tree with a leaf at depth three or more has been printed
CodesArePathsCase ==
    /\ hpc = "done"
    /\ node # UNINIT
    /\ \E k \in 1 .. Len(table) : table[k].bits >= 3
    /\ \E k \in 1 .. Len(entered) : entered[k].end >= 3

====
